---------------------------- MODULE Spec2Model ----------------------------
(***************************************************************************)
(* Model of the XML service of FAbreu6/TP3-IS (services/xml-service/src).   *)
(*                                                                         *)
(*  - xml_generator.py : safe_str, safe_integer, safe_decimal, the csv      *)
(*    decoding (csv.DictReader as the primary decoder, the manual recovery  *)
(*    parser) and the document build.                                       *)
(*  - xml_validator.py : validate_xml.                                      *)
(*  - database.py      : the Database handle (one connection, one cursor)   *)
(*    and its operations, statement by statement.                           *)
(*  - main.py / socket_server.py : the accept paths and the write unit of   *)
(*    work (generate -> validate -> insert -> webhook), one thread each.    *)
(*                                                                         *)
(* Text is a sequence of one-character strings; a csv text is the sequence  *)
(* of its lines (the text split on "\n").                                   *)
(***************************************************************************)
EXTENDS Integers, Sequences, FiniteSets, TLC

VARIABLES
    \* ---- generate_xml_from_csv applied to one input (SpecCsv) ----
    csvContent,     \* the csv text handed to generate_xml_from_csv
    csvMapper,      \* the mapper handed to generate_xml_from_csv
    csvPhase,       \* "input" | "done"
    csvResult,      \* the outcome of generate_xml_from_csv
    \* ---- the numeric normalisers applied to one raw text (SpecNum) ----
    numRaw,         \* the raw text of a numeric csv field
    numPhase,       \* "input" | "done"
    numInt,         \* safe_integer(numRaw, '0')
    numDec,         \* safe_decimal(numRaw, '0')
    \* ---- one function applied to one argument (SpecPath, SpecValidate) ----
    callArg,        \* the argument
    callPhase,      \* "input" | "done"
    callOut,        \* what the function returned
    \* ---- the service (Spec) and the Database handle alone (SpecDb) ----
    pc,             \* per thread: its position in the handler it runs
    req,            \* per thread: the request / operation it serves
    loc,            \* per thread: its local variables
    db,             \* the Database handle: the connection with its open
                    \* transaction, the one cursor, and the table behind it
    webhooks,       \* the outbound notifications attempted
    replies,        \* the synchronous answers given to callers
    started,        \* number of operations submitted so far
    opsLeft         \* number of operations the callers will still submit

csvVars == <<csvContent, csvMapper, csvPhase, csvResult>>
numVars == <<numRaw, numPhase, numInt, numDec>>
callVars == <<callArg, callPhase, callOut>>
svcVars == <<pc, req, loc, db, webhooks, replies, started, opsLeft>>
vars == <<csvVars, numVars, callVars, svcVars>>

-----------------------------------------------------------------------------
(* Text helpers                                                            *)

QUOTE == "\""
COMMA == ","
NL    == "\n"
SPACE == " "
EOL   == "<EOL>"          \* the end-of-line mark the csv reader feeds itself
NoneV == <<"<None>">>     \* Python's None where a text is expected

IsNone(v) == v = NoneV

Range(s) == {s[i] : i \in DOMAIN s}

SeqsUpTo(S, n) == UNION {[1..k -> S] : k \in 0..n}

IsSpaceChar(c) == c \in {SPACE, NL}

\* str.strip(): leading and trailing whitespace removed
RECURSIVE LStrip(_)
LStrip(s) == IF s # <<>> /\ IsSpaceChar(Head(s)) THEN LStrip(Tail(s)) ELSE s

RECURSIVE RStrip(_)
RStrip(s) ==
    IF s # <<>> /\ IsSpaceChar(s[Len(s)]) THEN RStrip(SubSeq(s, 1, Len(s) - 1)) ELSE s

Strip(s) == RStrip(LStrip(s))

\* str.strip('"'): leading and trailing double quotes removed
RECURSIVE LStripQ(_)
LStripQ(s) == IF s # <<>> /\ Head(s) = QUOTE THEN LStripQ(Tail(s)) ELSE s

RECURSIVE RStripQ(_)
RStripQ(s) ==
    IF s # <<>> /\ s[Len(s)] = QUOTE THEN RStripQ(SubSeq(s, 1, Len(s) - 1)) ELSE s

StripQuotes(s) == RStripQ(LStripQ(s))

\* str.split(','): the pieces between commas, quotes not interpreted
RECURSIVE SplitComma(_, _, _)
SplitComma(s, cur, acc) ==
    IF s = <<>> THEN Append(acc, cur)
    ELSE IF Head(s) = COMMA THEN SplitComma(Tail(s), <<>>, Append(acc, cur))
    ELSE SplitComma(Tail(s), Append(cur, Head(s)), acc)

Split(s) == SplitComma(s, <<>>, <<>>)

\* the lines of a text with line.strip() non-empty, with their line numbers
NonEmptyLines(content) ==
    LET F[i \in 0..Len(content)] ==
            IF i = 0 THEN <<>>
            ELSE IF Strip(content[i]) # <<>>
                 THEN Append(F[i - 1], [text |-> content[i], at |-> i])
                 ELSE F[i - 1]
    IN F[Len(content)]

\* safe_str(value, default)
safe_str(value, default) ==
    IF IsNone(value) THEN default
    ELSE IF Strip(value) # <<>> THEN Strip(value) ELSE default

-----------------------------------------------------------------------------
(* xml_generator.py : the numeric normalisers safe_integer and safe_decimal *)
(*                                                                         *)
(* A number is kept as its decimal digits (sequences of digit characters): *)
(* float() is read for the decimal value it parses, and the "f" formatting  *)
(* for the digits it prints.  The binary rounding of float is not          *)
(* modelled: the digits printed are those of the decimal value itself,     *)
(* which is what the code prints for every value below 8 in magnitude, for *)
(* integers below 2^53 and for binary fractions.                           *)

MINUS == "-"
PLUS  == "+"
DOT   == "."
ZERO  == "0"

Digits == {"0", "1", "2", "3", "4", "5", "6", "7", "8", "9"}

\* str.isdigit() on one character
IsDigit(c) == c \in Digits

DigitVal(c) ==
    CASE c = "0" -> 0 [] c = "1" -> 1 [] c = "2" -> 2 [] c = "3" -> 3
      [] c = "4" -> 4 [] c = "5" -> 5 [] c = "6" -> 6 [] c = "7" -> 7
      [] c = "8" -> 8 [] c = "9" -> 9

DigitChar(n) == CHOOSE c \in Digits : DigitVal(c) = n

OnlyDigits(s) == SelectSeq(s, IsDigit)

AllDigits(s) == \A i \in DOMAIN s : IsDigit(s[i])

Zeros(n) == [i \in 1..n |-> ZERO]

AllZero(s) == \A i \in DOMAIN s : s[i] = ZERO

\* the first index from i on that holds no digit
RECURSIVE RunEnd(_, _)
RunEnd(s, i) == IF i <= Len(s) /\ IsDigit(s[i]) THEN RunEnd(s, i + 1) ELSE i

\* safe_integer stopping at the first character that is not a digit
safe_integer_first_run(value, default) ==
    IF IsNone(value) THEN default
    ELSE LET s_val == Strip(value)
             kept  == SubSeq(s_val, 1, RunEnd(s_val, 1) - 1)
         IN  IF kept # <<>> THEN kept ELSE default

\* safe_integer(value, default)
safe_integer(value, default) ==
    IF IsNone(value) THEN default
    ELSE LET s_val   == Strip(value)
             cleaned == SelectSeq(s_val, LAMBDA c : IsDigit(c) \/ c = MINUS)
             kept    == IF cleaned # <<>> /\ Head(cleaned) = MINUS
                        THEN <<MINUS>> \o OnlyDigits(Tail(cleaned))
                        ELSE OnlyDigits(cleaned)
         IN  IF s_val = <<>> THEN default
             ELSE IF kept # <<>> THEN kept ELSE default

\* the value of a digit text as an integer (exponents only)
RECURSIVE DigitsToNat(_)
DigitsToNat(s) ==
    IF s = <<>> THEN 0
    ELSE 10 * DigitsToNat(SubSeq(s, 1, Len(s) - 1)) + DigitVal(s[Len(s)])

Lower(c) == CASE c = "E" -> "e" [] c = "I" -> "i" [] c = "N" -> "n"
              [] c = "F" -> "f" [] c = "A" -> "a" [] c = "T" -> "t"
              [] c = "Y" -> "y" [] OTHER -> c

LowerText(s) == [i \in DOMAIN s |-> Lower(s[i])]

NotANumber == [kind |-> "error"]

\* the exponents float can hold, to the decade: larger values are inf,
\* smaller ones 0.0
MaxExp10 == 308
MinExp10 == -324

\* the first index of s that holds a digit other than 0 (Len(s) + 1 if none)
RECURSIVE FirstNonZero(_, _)
FirstNonZero(s, i) ==
    IF i <= Len(s) /\ s[i] = ZERO THEN FirstNonZero(s, i + 1) ELSE i

\* float(s) of a stripped text: [sign] digits [. digits] [e [sign] digits],
\* or inf / infinity / nan; anything else raises ValueError ("error").
\* A finite value is sign, digits and the position of the decimal point
\* (the number of digits left of it, which may be negative or beyond them).
\* The text is read left to right: i0 is where the digits start, i1 where
\* the integer digits end, i2 where the fraction ends, i3 where the exponent
\* digits start and i4 where they end.
FloatFrom(neg, digs, point, exp10) ==
    IF AllZero(digs) \/ exp10 < MinExp10 THEN [kind |-> "zero", neg |-> neg]
    ELSE IF exp10 > MaxExp10 THEN [kind |-> "inf", neg |-> neg]
    ELSE [kind |-> "finite", neg |-> neg, digs |-> digs, point |-> point]

\* the exponent is cut where the value is inf or 0.0 whatever the digits
FloatParts(neg, ip, fp, eNeg, eDigs) ==
    LET eVal == IF Len(eDigs) > 4 THEN 9999 ELSE DigitsToNat(eDigs)
        shift == IF eNeg THEN 0 - eVal ELSE eVal
    IN  FloatFrom(neg, ip \o fp, Len(ip) + shift,
                  Len(ip) + shift - FirstNonZero(ip \o fp, 1))

FloatExpDigits(s, neg, ip, fp, eNeg, i3, i4) ==
    IF i4 = i3 \/ i4 # Len(s) + 1 THEN NotANumber
    ELSE FloatParts(neg, ip, fp, eNeg, SubSeq(s, i3, i4 - 1))

FloatExpSign(s, neg, ip, fp, eNeg, i3) ==
    FloatExpDigits(s, neg, ip, fp, eNeg, i3, RunEnd(s, i3))

FloatExp(s, neg, ip, fp, i2) ==
    IF ip \o fp = <<>> THEN NotANumber
    ELSE IF i2 = Len(s) + 1 THEN FloatParts(neg, ip, fp, FALSE, <<>>)
    ELSE IF s[i2] \notin {"e", "E"} THEN NotANumber
    ELSE IF i2 + 1 <= Len(s) /\ s[i2 + 1] \in {MINUS, PLUS}
    THEN FloatExpSign(s, neg, ip, fp, s[i2 + 1] = MINUS, i2 + 2)
    ELSE FloatExpSign(s, neg, ip, fp, FALSE, i2 + 1)

FloatFracEnd(s, neg, ip, i1, i2) == FloatExp(s, neg, ip, SubSeq(s, i1 + 1, i2 - 1), i2)

FloatFrac(s, neg, i0, i1) ==
    IF i1 <= Len(s) /\ s[i1] = DOT
    THEN FloatFracEnd(s, neg, SubSeq(s, i0, i1 - 1), i1, RunEnd(s, i1 + 1))
    ELSE FloatExp(s, neg, SubSeq(s, i0, i1 - 1), <<>>, i1)

FloatWord(word, neg) ==
    [kind |-> IF Head(word) = "n" THEN "nan" ELSE "inf", neg |-> neg]

FloatSigned(s, neg, i0) ==
    IF LowerText(SubSeq(s, i0, Len(s))) \in
          {<<"i", "n", "f">>, <<"n", "a", "n">>,
           <<"i", "n", "f", "i", "n", "i", "t", "y">>}
    THEN FloatWord(LowerText(SubSeq(s, i0, Len(s))), neg)
    ELSE FloatFrac(s, neg, i0, RunEnd(s, i0))

PyFloat(s) ==
    IF s # <<>> /\ Head(s) \in {MINUS, PLUS}
    THEN FloatSigned(s, Head(s) = MINUS, 2)
    ELSE FloatSigned(s, FALSE, 1)

\* the digits left and right of the decimal point of a finite value
IntDigits(x) ==
    IF x.point <= 0 THEN <<>>
    ELSE IF x.point >= Len(x.digs)
    THEN (IF FirstNonZero(x.digs, 1) > Len(x.digs) THEN <<>>
          ELSE SubSeq(x.digs, FirstNonZero(x.digs, 1), Len(x.digs))
               \o Zeros(x.point - Len(x.digs)))
    ELSE SubSeq(x.digs, FirstNonZero(SubSeq(x.digs, 1, x.point), 1), x.point)

FracDigits(x) ==
    IF x.point <= 0 THEN Zeros(0 - x.point) \o x.digs
    ELSE IF x.point >= Len(x.digs) THEN <<>>
         ELSE SubSeq(x.digs, x.point + 1, Len(x.digs))

\* abs(float_val) < 1e-6  and  abs(float_val) >= 1e15
BelowMicro(x) ==
    /\ IntDigits(x) = <<>>
    /\ Len(FracDigits(x)) >= 6
    /\ AllZero(SubSeq(FracDigits(x), 1, 6))

AtLeast1e15(x) == Len(IntDigits(x)) >= 16

\* a digit text plus one in its last place
RECURSIVE Increment(_)
Increment(s) ==
    IF s = <<>> THEN <<"1">>
    ELSE IF s[Len(s)] = "9"
         THEN Append(Increment(SubSeq(s, 1, Len(s) - 1)), ZERO)
         ELSE Append(SubSeq(s, 1, Len(s) - 1), DigitChar(DigitVal(s[Len(s)]) + 1))

\* str.rstrip('0') and str.rstrip('.')
RECURSIVE RStripChar(_, _)
RStripChar(s, c) ==
    IF s # <<>> /\ s[Len(s)] = c THEN RStripChar(SubSeq(s, 1, Len(s) - 1), c)
    ELSE s

\* the sign, the integer digits (at least one), the point and the n
\* fraction digits of a rounded digit text
FormatDigits(neg, round, n) ==
    (IF neg THEN <<MINUS>> ELSE <<>>) \o
    (IF Len(round) = n THEN <<ZERO>> ELSE SubSeq(round, 1, Len(round) - n)) \o
    <<DOT>> \o SubSeq(round, Len(round) - n + 1, Len(round))

\* the kept digits, one more in the last place when the digits cut off are
\* above one half, or one half with an odd last digit
FormatRounded(neg, whole, rest, n) ==
    IF /\ rest # <<>>
       /\ \/ DigitVal(rest[1]) > 5
          \/ /\ rest[1] = "5"
             /\ \/ ~AllZero(Tail(rest))
                \/ whole # <<>> /\ DigitVal(whole[Len(whole)]) % 2 = 1
    THEN FormatDigits(neg, Increment(whole), n)
    ELSE FormatDigits(neg, whole, n)

FormatFinite(neg, ip, fp, n) ==
    IF Len(fp) > n
    THEN FormatRounded(neg, ip \o SubSeq(fp, 1, n), SubSeq(fp, n + 1, Len(fp)), n)
    ELSE FormatDigits(neg, ip \o fp \o Zeros(n - Len(fp)), n)

\* f"{float_val:.<n>f}": sign, integer digits, the point and exactly n
\* fraction digits, rounded to nearest, a tie to the even digit
FormatF(x, n) ==
    IF x.kind \in {"nan", "inf"}
    THEN (IF x.neg THEN <<MINUS>> ELSE <<>>) \o
         (IF x.kind = "nan" THEN <<"n", "a", "n">> ELSE <<"i", "n", "f">>)
    ELSE IF x.kind = "zero"
    THEN (IF x.neg THEN <<MINUS>> ELSE <<>>) \o <<ZERO, DOT>> \o Zeros(n)
    ELSE FormatFinite(x.neg, IntDigits(x), FracDigits(x), n)

\* f"{float_val:.<n>f}".rstrip('0').rstrip('.')
Trimmed(x, n) == RStripChar(RStripChar(FormatF(x, n), ZERO), DOT)

\* re.match(r'^-?\d', formatted)
StartsLikeNumber(t) ==
    \/ t # <<>> /\ IsDigit(Head(t))
    \/ Len(t) >= 2 /\ Head(t) = MINUS /\ IsDigit(t[2])

\* the formatted text, or default where the checks on it fail
CheckedText(formatted, default) ==
    IF formatted = <<>> \/ formatted = <<MINUS>> THEN default
    ELSE IF ~StartsLikeNumber(formatted) THEN default
    ELSE formatted

\* the last index of s that holds c (0 if none)
RECURSIVE LastIndexOf(_, _, _)
LastIndexOf(s, c, i) ==
    IF i = 0 THEN 0 ELSE IF s[i] = c THEN i ELSE LastIndexOf(s, c, i - 1)

\* whether base reads [+-]? digits+ .? digits*
IsSciBase(base) ==
    \E b0 \in {IF base # <<>> /\ Head(base) \in {MINUS, PLUS} THEN 2 ELSE 1} :
    \E b1 \in {RunEnd(base, b0)} :
       /\ b1 > b0
       /\ \/ b1 = Len(base) + 1
          \/ base[b1] = DOT /\ RunEnd(base, b1 + 1) = Len(base) + 1

\* re.match(r'^([+-]?\d+\.?\d*)-(\d+)$', s_val), the hyphen being the last
\* one of the text at index k: base before it, exponent digits after it
SciMatchAt(s, k) ==
    /\ k > 1 /\ k < Len(s)
    /\ AllDigits(SubSeq(s, k + 1, Len(s)))
    /\ IsSciBase(SubSeq(s, 1, k - 1))

SciMatch(s) == SciMatchAt(s, LastIndexOf(s, MINUS, Len(s)))

\* lines 39-45: the text handed to float(), the malformed scientific
\* notation repaired as f"{base}e-{exp}"
RepairedAt(s, k) ==
    IF SciMatchAt(s, k)
    THEN SubSeq(s, 1, k - 1) \o <<"e", MINUS>> \o SubSeq(s, k + 1, Len(s))
    ELSE s

Repaired(s) == RepairedAt(s, LastIndexOf(s, MINUS, Len(s)))

\* lines 88-93, 95: the text of the second conversion, or default
CleanedFormatted(x, default) ==
    IF x.kind = "error" THEN default ELSE CheckedText(Trimmed(x, 15), default)

\* lines 81-95, the except branch of safe_decimal: the characters of a
\* number kept, and the conversion tried once more
CleanedText(cleaned, default) ==
    IF OnlyDigits(cleaned) = <<>> THEN default
    ELSE CleanedFormatted(PyFloat(cleaned), default)

CleanedDecimal(s, default) ==
    CleanedText(SelectSeq(s, LAMBDA c : IsDigit(c) \/ c \in {DOT, MINUS, PLUS, "e", "E"}),
                default)

\* lines 51-76: the value formatted, a value that is no number (nan, inf)
\* giving text that fails the check of line 75
FormattedDecimal(x, default) ==
    IF x.kind = "zero" THEN <<ZERO>>
    ELSE IF x.kind \in {"nan", "inf"} THEN CheckedText(Trimmed(x, 20), default)
    ELSE IF BelowMicro(x) \/ AtLeast1e15(x)
    THEN CheckedText(Trimmed(x, 20), default)
    ELSE CheckedText(Trimmed(x, 15), default)

ConvertedDecimal(x, fixed, default) ==
    IF x.kind = "error" THEN CleanedDecimal(fixed, default)
    ELSE FormattedDecimal(x, default)

RepairedDecimal(fixed, default) == ConvertedDecimal(PyFloat(fixed), fixed, default)

StrippedDecimal(s_val, default) ==
    IF s_val = <<>> THEN default ELSE RepairedDecimal(Repaired(s_val), default)

\* safe_decimal(value, default)
safe_decimal(value, default) ==
    IF IsNone(value) THEN default ELSE StrippedDecimal(Strip(value), default)

-----------------------------------------------------------------------------
(* csv.reader (dialect excel: delimiter ',', quotechar '"', doublequote,    *)
(* not strict), the character automaton of the standard decoder that        *)
(* csv.DictReader drives (xml_generator.py line 150).                       *)

ReaderReset == [state |-> "START_RECORD", field |-> <<>>, fields |-> <<>>]

parse_save_field(st) ==
    [st EXCEPT !.fields = Append(@, st.field), !.field = <<>>]

parse_add_char(st, c) == [st EXCEPT !.field = Append(@, c)]

parse_process_char(st, c) ==
    LET endOfRecord(s) ==
            [s EXCEPT !.state = IF c = EOL THEN "START_RECORD" ELSE "EAT_CRNL"]
        startField ==
            IF c \in {NL, EOL} THEN endOfRecord(parse_save_field(st))
            ELSE IF c = QUOTE THEN [st EXCEPT !.state = "IN_QUOTED_FIELD"]
            ELSE IF c = COMMA
                 THEN [parse_save_field(st) EXCEPT !.state = "START_FIELD"]
            ELSE [parse_add_char(st, c) EXCEPT !.state = "IN_FIELD"]
    IN  CASE st.state = "START_RECORD" ->
                IF c = EOL THEN st
                ELSE IF c = NL THEN [st EXCEPT !.state = "EAT_CRNL"]
                ELSE startField
          [] st.state = "START_FIELD" -> startField
          [] st.state = "IN_FIELD" ->
                IF c \in {NL, EOL} THEN endOfRecord(parse_save_field(st))
                ELSE IF c = COMMA
                     THEN [parse_save_field(st) EXCEPT !.state = "START_FIELD"]
                ELSE parse_add_char(st, c)
          [] st.state = "IN_QUOTED_FIELD" ->
                IF c = EOL THEN st
                ELSE IF c = QUOTE THEN [st EXCEPT !.state = "QUOTE_IN_QUOTED_FIELD"]
                ELSE parse_add_char(st, c)
          [] st.state = "QUOTE_IN_QUOTED_FIELD" ->
                IF c = QUOTE
                THEN [parse_add_char(st, c) EXCEPT !.state = "IN_QUOTED_FIELD"]
                ELSE IF c = COMMA
                     THEN [parse_save_field(st) EXCEPT !.state = "START_FIELD"]
                ELSE IF c \in {NL, EOL} THEN endOfRecord(parse_save_field(st))
                ELSE [parse_add_char(st, c) EXCEPT !.state = "IN_FIELD"]
          [] st.state = "EAT_CRNL" ->
                IF c = NL THEN st
                ELSE IF c = EOL THEN [st EXCEPT !.state = "START_RECORD"]
                ELSE [st EXCEPT !.state = "ERROR"]
          [] OTHER -> st

RECURSIVE FeedChars(_, _, _)
FeedChars(st, s, i) ==
    IF i > Len(s) THEN st ELSE FeedChars(parse_process_char(st, s[i]), s, i + 1)

\* io.StringIO(csv_content) iterated by line: every line keeps its "\n"; a
\* text ending in "\n" has no further (empty) line.
StringIOLines(content) ==
    LET n == IF content[Len(content)] = <<>> THEN Len(content) - 1 ELSE Len(content)
    IN  [i \in 1..n |-> IF i < Len(content) THEN Append(content[i], NL) ELSE content[i]]

\* Reader.__next__ repeated to exhaustion: the records, each with the number
\* of the line it starts at.  A record ends when the automaton is back in
\* START_RECORD after a line; at end of input an open quoted field is saved.
RECURSIVE ReaderRecords(_, _, _, _, _)
ReaderRecords(io, i, st, start, acc) ==
    IF i > Len(io)
    THEN IF st.state = "IN_QUOTED_FIELD" \/ st.field # <<>>
         THEN Append(acc, [fields |-> parse_save_field(st).fields, at |-> start])
         ELSE acc
    ELSE LET st1 == parse_process_char(FeedChars(st, io[i], 1), EOL)
         IN  IF st1.state = "START_RECORD"
             THEN ReaderRecords(io, i + 1, ReaderReset, i + 1,
                                Append(acc, [fields |-> st1.fields, at |-> start]))
             ELSE ReaderRecords(io, i + 1, st1, start, acc)

\* csv.DictReader: the first record is the header; records that are [] are
\* skipped; a short row is padded with None, the surplus of a long row goes
\* under the key None.
DictRow(fieldnames, rec) ==
    [keys  |-> fieldnames,
     vals  |-> [j \in 1..Len(fieldnames) |->
                    IF j <= Len(rec.fields) THEN rec.fields[j] ELSE NoneV],
     extra |-> IF Len(rec.fields) > Len(fieldnames)
               THEN SubSeq(rec.fields, Len(fieldnames) + 1, Len(rec.fields))
               ELSE <<>>,
     at    |-> rec.at,
     via   |-> "primary"]

DictReader(content) ==
    LET recs == ReaderRecords(StringIOLines(content), 1, ReaderReset, 1, <<>>)
        F[i \in 0..Len(recs)] ==
            IF i <= 1 THEN <<>>
            ELSE IF recs[i].fields = <<>> THEN F[i - 1]
                 ELSE Append(F[i - 1], DictRow(recs[1].fields, recs[i]))
    IN  F[Len(recs)]

\* dict lookup row.get(key): the last column named key decides (dict(zip()))
RowGet(row, key) ==
    LET hits == {j \in 1..Len(row.keys) : row.keys[j] = key}
    IN  IF hits = {} THEN NoneV
        ELSE row.vals[CHOOSE j \in hits : \A k \in hits : k <= j]

RowGetOr(row, key, default) ==
    IF key \in Range(row.keys) THEN RowGet(row, key) ELSE default

-----------------------------------------------------------------------------
(* The recovery parser of generate_xml_from_csv (lines 158-203)            *)

\* the quote-aware scanner of one line (lines 171-183)
RECURSIVE ManualScan(_, _, _, _)
ManualScan(line, cur, inQuotes, values) ==
    IF line = <<>> THEN Append(values, Strip(cur))
    ELSE LET c == Head(line) IN
         IF c = QUOTE THEN ManualScan(Tail(line), cur, ~inQuotes, values)
         ELSE IF c = COMMA /\ ~inQuotes
              THEN ManualScan(Tail(line), <<>>, inQuotes, Append(values, Strip(cur)))
         ELSE ManualScan(Tail(line), Append(cur, c), inQuotes, values)

ManualValues(line) == ManualScan(line, <<>>, FALSE, <<>>)

\* header = [h.strip().strip('"') for h in first_line.split(',')]
ManualHeader(line) ==
    LET parts == Split(line)
    IN  [i \in 1..Len(parts) |-> StripQuotes(Strip(parts[i]))]

\* No statement of the try block (lines 169-196) can raise: it scans
\* characters, appends to lists and indexes header within its length.
ManualParseRaises(line) == FALSE

ManualRow(header, values, at) ==
    [keys  |-> header,
     vals  |-> [i \in 1..Len(header) |-> StripQuotes(values[i])],
     extra |-> <<>>,
     at    |-> at,
     via   |-> "recovery"]

\* the except branch (lines 197-203)
DegradedRow(header, line, at) ==
    [keys  |-> header,
     vals  |-> [i \in 1..Len(header) |->
                    IF i = 1 THEN StripQuotes(Split(line)[1]) ELSE <<>>],
     extra |-> <<>>,
     at    |-> at,
     via   |-> "degraded"]

\* what one remaining line adds to rows (lines 169-203)
RecoverLine(rows, header, ln) ==
    IF ManualParseRaises(ln.text)
    THEN Append(rows, DegradedRow(header, ln.text, ln.at))
    ELSE IF Len(ManualValues(ln.text)) >= Len(header)
         THEN Append(rows, ManualRow(header, ManualValues(ln.text), ln.at))
         ELSE rows

\* the loop of lines 167-203: line_idx counts from 2 over the non-empty data
\* lines, and a line is parsed when line_idx > len(rows) + 1, rows growing.
RECURSIVE RecoverLoop(_, _, _, _)
RecoverLoop(rows, header, nonEmpty, k) ==
    IF k > Len(nonEmpty) THEN rows
    ELSE IF k > Len(rows) + 1
         THEN RecoverLoop(RecoverLine(rows, header, nonEmpty[k]), header, nonEmpty, k + 1)
         ELSE RecoverLoop(rows, header, nonEmpty, k + 1)

\* rows as generate_xml_from_csv has them at line 205
ParseRows(content) ==
    LET rows     == DictReader(content)
        nonEmpty == NonEmptyLines(content)
    IN  IF Len(rows) < Len(nonEmpty) - 1
        THEN RecoverLoop(rows, ManualHeader(nonEmpty[1].text), nonEmpty, 2)
        ELSE rows

RecoveryRan(content) == Len(DictReader(content)) < Len(NonEmptyLines(content)) - 1

-----------------------------------------------------------------------------
(* generate_xml_from_csv: input checks, decoding, build (lines 117-339)    *)

\* column names the build falls back to when the mapper has no entry
ColTicker    == <<"t", "i", "c", "k", "e", "r">>
ColCategoria == <<"c", "a", "t", "e", "g", "o", "r", "i", "a">>
ColNome      == <<"n", "o", "m", "e">>
Cryptocurrency == <<"Cryptocurrency">>

\* mapper.get(name, default): a mapper is a function from logical field
\* names to column names
MapperGet(mapper, name, default) ==
    IF name \in DOMAIN mapper THEN mapper[name] ELSE default

\* get_mapper_version: the version encodes the number of mapped fields
get_mapper_version(mapper) == Cardinality(DOMAIN mapper)

\* "".split("\n") is [""]: the empty text is the one empty line
EmptyText == << <<>> >>

\* one Ativo element from row number idx (0-based), lines 238-310
BuildAtivo(row, idx, mapper) ==
    LET ticker_key    == MapperGet(mapper, "ticker", ColTicker)
        categoria_key == MapperGet(mapper, "categoria", ColCategoria)
        nome_key      == MapperGet(mapper, "nome", ColNome)
        categoria_val == safe_str(RowGet(row, categoria_key), Cryptocurrency)
        nome_first    == safe_str(RowGet(row, nome_key), <<>>)
    IN  [IDInterno |-> [letter |-> idx % 26, ordinal |-> idx + 1],
         Ticker    |-> safe_str(RowGet(row, ticker_key), <<>>),
         Tipo      |-> IF categoria_val # <<>> THEN categoria_val ELSE Cryptocurrency,
         Nome      |-> IF nome_first # <<>> THEN nome_first
                       ELSE safe_str(RowGet(row, ticker_key), <<>>),
         at        |-> row.at,
         via       |-> row.via]

BuildAtivos(rows, mapper) ==
    [i \in 1..Len(rows) |-> BuildAtivo(rows[i], i - 1, mapper)]

\* lines 205-206 and the build, on the rows the decoding produced
GenerateFromRows(rows, mapper) ==
    IF rows = <<>>
    THEN [ok |-> FALSE, error |-> "no_rows", ativos |-> <<>>]
    ELSE [ok |-> TRUE, error |-> "", ativos |-> BuildAtivos(rows, mapper)]

generate_xml_from_csv(content, mapper) ==
    IF content = EmptyText
    THEN [ok |-> FALSE, error |-> "csv_empty", ativos |-> <<>>]
    ELSE IF DOMAIN mapper = {}
    THEN [ok |-> FALSE, error |-> "mapper_empty", ativos |-> <<>>]
    ELSE GenerateFromRows(ParseRows(content), mapper)

-----------------------------------------------------------------------------
(* SpecCsv: generate_xml_from_csv applied to every csv text within bounds  *)

MaxLineLen   == 2
MaxDataLines == 3

CsvAlphabet == {"x", COMMA, QUOTE, SPACE}
CsvHeaders  == { <<"h">>, <<"h", COMMA, "k">> }
CsvLines    == SeqsUpTo(CsvAlphabet, MaxLineLen)

CsvTexts ==
    {EmptyText, << <<SPACE>> >>} \cup
    { <<h>> \o d : h \in CsvHeaders, d \in SeqsUpTo(CsvLines, MaxDataLines) }

CsvMappers == { <<>>, [ticker |-> <<"h">>], [ticker |-> <<"k">>, nome |-> <<"h">>] }

NoCsv == [ok |-> FALSE, error |-> "not_run", ativos |-> <<>>]

svcIdle ==
    /\ pc = <<>> /\ req = <<>> /\ loc = <<>> /\ db = <<>>
    /\ webhooks = {} /\ replies = {} /\ started = 0 /\ opsLeft = 0

numIdle == numRaw = <<>> /\ numPhase = "off" /\ numInt = <<>> /\ numDec = <<>>

callIdle == callArg = <<>> /\ callPhase = "off" /\ callOut = <<>>

CsvInit ==
    /\ csvContent \in CsvTexts
    /\ csvMapper \in CsvMappers
    /\ csvPhase = "input"
    /\ csvResult = NoCsv
    /\ numIdle
    /\ callIdle
    /\ svcIdle

CsvGenerate ==
    /\ csvPhase = "input"
    /\ csvPhase' = "done"
    /\ csvResult' = generate_xml_from_csv(csvContent, csvMapper)
    /\ UNCHANGED <<csvContent, csvMapper, numVars, callVars, svcVars>>

CsvNext == CsvGenerate

SpecCsv == CsvInit /\ [][CsvNext]_vars

-----------------------------------------------------------------------------
(* SpecNum: safe_integer and safe_decimal applied to every raw text within *)
(* bounds, with the default '0' the document build passes                  *)

MaxNumLen == 3

NumAlphabet == {"0", "5", DOT, MINUS, "e", "a", SPACE}

NumExamples ==
    { <<"1", "2", "a", "-", "3", "b", "4">>,
      <<"2", ".", "3", "3", "-", "7">>,
      <<"a", "b", "c">>,
      <<"-", "5", ".", "5">>,
      <<"1", ".", "2", "3", "e", "-", "4">>,
      <<"-", "1", "e", "-", "3", "0">>,
      <<"2", "5", "-", "2", "1">>,
      <<"n", "a", "n">>,
      <<"-", "i", "n", "f">> }

NumTexts == NumExamples \cup SeqsUpTo(NumAlphabet, MaxNumLen)

DefaultNumber == <<ZERO>>

csvIdle ==
    /\ csvContent = EmptyText /\ csvMapper = <<>> /\ csvPhase = "off"
    /\ csvResult = NoCsv

NumInit ==
    /\ numRaw \in NumTexts
    /\ numPhase = "input"
    /\ numInt = <<>>
    /\ numDec = <<>>
    /\ csvIdle
    /\ callIdle
    /\ svcIdle

NumNormalize ==
    /\ numPhase = "input"
    /\ numPhase' = "done"
    /\ numInt' = safe_integer(numRaw, DefaultNumber)
    /\ numDec' = safe_decimal(numRaw, DefaultNumber)
    /\ UNCHANGED <<numRaw, csvVars, callVars, svcVars>>

NumNext == NumNormalize

SpecNum == NumInit /\ [][NumNext]_vars

-----------------------------------------------------------------------------
(* xml_validator.py                                                        *)

\* the document generate_xml_from_csv serialises (lines 216-232, 318-334)
XmlOf(ativos) ==
    [wellFormed |-> TRUE,
     root       |-> "RelatorioConformidade",
     attrs      |-> {"DataGeracao", "Versao"},
     children   |-> {"Configuracao", "Ativos"},
     ativos     |-> ativos]

NoXml == [wellFormed |-> FALSE, root |-> "", attrs |-> {}, children |-> {},
          ativos |-> <<>>]

\* xml_content that is '' or None (line 29)
EmptyContent == [NoXml EXCEPT !.root = "<empty>"]

\* the basic check without its last test (a variant, to show what the test
\* on the Ativo children is for)
_validate_xml_basic_any_ativos(xml) ==
    IF xml.root # "RelatorioConformidade" THEN [valid |-> FALSE, error |-> "root"]
    ELSE IF "DataGeracao" \notin xml.attrs THEN [valid |-> FALSE, error |-> "DataGeracao"]
    ELSE IF "Versao" \notin xml.attrs THEN [valid |-> FALSE, error |-> "Versao"]
    ELSE IF "Configuracao" \notin xml.children THEN [valid |-> FALSE, error |-> "Configuracao"]
    ELSE IF "Ativos" \notin xml.children THEN [valid |-> FALSE, error |-> "Ativos"]
    ELSE [valid |-> TRUE, error |-> ""]

\* lines 76-112; error is the item the message names, "" for None
_validate_xml_basic(xml) ==
    IF xml.root # "RelatorioConformidade" THEN [valid |-> FALSE, error |-> "root"]
    ELSE IF "DataGeracao" \notin xml.attrs THEN [valid |-> FALSE, error |-> "DataGeracao"]
    ELSE IF "Versao" \notin xml.attrs THEN [valid |-> FALSE, error |-> "Versao"]
    ELSE IF "Configuracao" \notin xml.children THEN [valid |-> FALSE, error |-> "Configuracao"]
    ELSE IF "Ativos" \notin xml.children THEN [valid |-> FALSE, error |-> "Ativos"]
    ELSE IF Len(xml.ativos) = 0 THEN [valid |-> FALSE, error |-> "Ativo"]
    ELSE [valid |-> TRUE, error |-> ""]

\* xsd: what the schema file of the deployment does with this document:
\* "absent" (no file: the basic check runs), "accepts" or "rejects"
XsdVerdicts == {"absent", "accepts", "rejects"}

\* "unreadable": a schema file that is there and cannot be loaded, with an
\* exception that is no XMLSchemaException
XsdOutcomes == XsdVerdicts \cup {"unreadable"}

\* lines 27-69, the body of the try block: what it returns, or that it
\* raises
ValidateBody(xml, xsd) ==
    IF xml = EmptyContent THEN [raised |-> FALSE, valid |-> FALSE, error |-> "empty"]
    ELSE IF ~xml.wellFormed THEN [raised |-> FALSE, valid |-> FALSE, error |-> "syntax"]
    ELSE IF xsd = "absent"
    THEN [raised |-> FALSE, valid |-> _validate_xml_basic(xml).valid,
          error |-> _validate_xml_basic(xml).error]
    ELSE IF xsd = "accepts" THEN [raised |-> FALSE, valid |-> TRUE, error |-> ""]
    ELSE IF xsd = "rejects" THEN [raised |-> FALSE, valid |-> FALSE, error |-> "schema"]
    ELSE [raised |-> TRUE, valid |-> FALSE, error |-> ""]

\* lines 17-73: the try block and its "except Exception" (lines 71-72)
validate_xml(xml, xsd) ==
    LET body == ValidateBody(xml, xsd) IN
    IF body.raised THEN [raised |-> FALSE, valid |-> FALSE, error |-> "validation"]
    ELSE body

-----------------------------------------------------------------------------
(* database.py: the connection, its transaction, the cursor, the table     *)

NoResult == [has |-> FALSE, by |-> 0, rows |-> <<>>]

\* a result row; cols names the columns the statement returns; src is the
\* operation whose INSERT made the row (0 when it is no table row)
Row(cols, id, xml, ts, mv, rid, status, result) ==
    [cols |-> cols, id |-> id, xml_documento |-> xml, data_criacao |-> ts,
     mapper_version |-> mv, request_id |-> rid, status |-> status,
     result |-> result, src |-> 0]

DocCols == {"id", "xml_documento", "data_criacao", "mapper_version",
            "request_id", "status"}

\* fetchone() on an exhausted result: None
NoneRow == Row({}, 0, NoXml, 0, 0, "", "", <<>>)

\* a row of table xml_documents
DocRow(id, xml, ts, mv, rid, status) == Row(DocCols, id, xml, ts, mv, rid, status, <<>>)

\* store: the committed rows of xml_documents; pending: the rows the open
\* transaction wrote; deleted: the ids of committed rows the open
\* transaction deleted or rewrote
DbInit ==
    [store |-> {}, pending |-> {}, deleted |-> {}, txn |-> "idle", txnTime |-> 0,
     clock |-> 0, nextId |-> 1, cursor |-> NoResult]

\* the committed rows the open transaction has left in place
Kept(d) == {r \in d.store : r.id \notin d.deleted}

\* rows a statement of this connection sees: committed rows and the rows its
\* own open transaction wrote
Visible(d) == Kept(d) \cup d.pending

\* psycopg2 connection.status: STATUS_READY = 1, STATUS_BEGIN = 2
ConnStatus(d) == IF d.txn = "idle" THEN 1 ELSE 2

ConnRollback(d) == [d EXCEPT !.pending = {}, !.deleted = {}, !.txn = "idle"]

\* COMMIT of a failed transaction rolls it back
ConnCommit(d) ==
    IF d.txn = "open"
    THEN [d EXCEPT !.store = Kept(d) \cup d.pending, !.pending = {}, !.deleted = {},
                   !.txn = "idle"]
    ELSE [d EXCEPT !.pending = {}, !.deleted = {}, !.txn = "idle"]

\* _ensure_clean_transaction (lines 86-95)
_ensure_clean_transaction(d) ==
    IF ConnStatus(d) # 0 THEN ConnRollback(d) ELSE d

\* the first statement after commit/rollback opens a transaction;
\* CURRENT_TIMESTAMP is the start time of the transaction
Begin(d) ==
    IF d.txn = "idle"
    THEN [d EXCEPT !.txn = "open", !.clock = @ + 1, !.txnTime = d.clock + 1]
    ELSE d

\* a statement that raises: the transaction is aborted, the cursor holds
\* no result
ExecRaises(d) ==
    [db |-> [Begin(d) EXCEPT !.txn = "failed", !.cursor = NoResult], raised |-> TRUE]

ExecReturns(d, by, rows) ==
    [db |-> [Begin(d) EXCEPT !.cursor = [has |-> TRUE, by |-> by, rows |-> rows]],
     raised |-> FALSE]

\* INSERT INTO xml_documents ... RETURNING id (lines 131-138); request_id is
\* UNIQUE (line 106); id is SERIAL (line 102), its sequence is not rolled back
ExecInsert(d, by, xml, mv, rid, status) ==
    IF d.txn = "failed" THEN ExecRaises(d)
    ELSE IF \E r \in Visible(d) : r.request_id = rid
    THEN [db |-> [Begin(d) EXCEPT !.txn = "failed", !.cursor = NoResult,
                                  !.nextId = @ + 1],
          raised |-> TRUE]
    ELSE LET b == Begin(d) IN
         [db |-> [b EXCEPT
                    !.pending = @ \cup {[DocRow(d.nextId, xml, b.txnTime, mv, rid, status)
                                           EXCEPT !.src = by]},
                    !.nextId = @ + 1,
                    !.cursor = [has |-> TRUE, by |-> by,
                                rows |-> <<Row({"id"}, d.nextId, NoXml, 0, 0, "", "", <<>>)>>]],
          raised |-> FALSE]

\* SELECT ... WHERE id = %s (lines 151-159)
ExecSelectById(d, by, id) ==
    IF d.txn = "failed" THEN {ExecRaises(d)}
    ELSE LET hit == {r \in Visible(d) : r.id = id} IN
         IF hit = {} THEN {ExecReturns(d, by, <<>>)}
         ELSE {ExecReturns(d, by, <<r>>) : r \in hit}

\* the rows with the greatest data_criacao among S
Newest(S) == {r \in S : \A o \in S : o.data_criacao <= r.data_criacao}

\* SELECT ... WHERE status = 'OK' ORDER BY data_criacao DESC LIMIT 1
\* (lines 177-189): among rows of equal data_criacao the order is the
\* store's choice
ExecSelectLatest(d, by) ==
    IF d.txn = "failed" THEN {ExecRaises(d)}
    ELSE LET ok == {r \in Visible(d) : r.status = "OK"} IN
         IF ok = {} THEN {ExecReturns(d, by, <<>>)}
         ELSE {ExecReturns(d, by, <<r>>) : r \in Newest(ok)}

\* cursor.fetchone(): the next row of the result the cursor holds now, None
\* when it is exhausted; raises when the cursor holds no result
FetchOne(d) ==
    IF ~d.cursor.has THEN [db |-> d, raised |-> TRUE, row |-> NoneRow, by |-> 0]
    ELSE IF d.cursor.rows = <<>>
    THEN [db |-> d, raised |-> FALSE, row |-> NoneRow, by |-> d.cursor.by]
    ELSE [db |-> [d EXCEPT !.cursor.rows = Tail(@)], raised |-> FALSE,
          row |-> Head(d.cursor.rows), by |-> d.cursor.by]

\* cursor.fetchall(): the remaining rows
FetchAll(d) ==
    IF ~d.cursor.has THEN [db |-> d, raised |-> TRUE, rows |-> <<>>, by |-> 0]
    ELSE [db |-> [d EXCEPT !.cursor.rows = <<>>], raised |-> FALSE,
          rows |-> d.cursor.rows, by |-> d.cursor.by]

-----------------------------------------------------------------------------
(* database.py: query_xpath (lines 312-389)                                *)

XpTicker  == "//Ativo/@Ticker"
XpInvalid == "//Ativo["
XpNoMatch == "//Passivo"
XpMarketCap     == "//Ativo/HistoricoAPI/MarketCap"
XpMarketCapText == "//Ativo/HistoricoAPI/MarketCap/text()"

\* an attribute or a text node that an Ativo does not have
Absent == NoneV

\* the text nodes of MarketCap of the Ativo elements that have one (the
\* documents of the service model carry no numeric fields)
RECURSIVE MarketCapTexts(_)
MarketCapTexts(ativos) ==
    IF ativos = <<>> THEN <<>>
    ELSE (IF "MarketCap" \in DOMAIN Head(ativos) /\ Head(ativos).MarketCap # Absent
          THEN <<Head(ativos).MarketCap>> ELSE <<>>)
         \o MarketCapTexts(Tail(ativos))

\* xpath(q, xml_documento): the matched nodes as texts, in document order
XPathEval(q, xml) ==
    IF q = XpTicker THEN [i \in 1..Len(xml.ativos) |-> xml.ativos[i].Ticker]
    ELSE IF q = XpMarketCapText THEN MarketCapTexts(xml.ativos)
    ELSE <<>>

\* the filters argument: None, or a dict with the keys it carries
NoFilters == [given |-> FALSE, keys |-> {}, status |-> ""]
StatusFilter(s) == [given |-> TRUE, keys |-> {"status"}, status |-> s]
EmptyFilters == [given |-> TRUE, keys |-> {}, status |-> ""]

\* "if filters:" (line 334) and "if 'status' in filters" (line 351)
FilterRows(S, filters) ==
    IF filters.given /\ filters.keys # {} /\ "status" \in filters.keys
    THEN {r \in S : r.status = filters.status}
    ELSE S

\* ORDER BY data_criacao DESC (line 355): every order of S that is
\* non-increasing in data_criacao
RECURSIVE OrderDesc(_)
OrderDesc(S) ==
    IF S = {} THEN {<<>>}
    ELSE UNION {{<<r>> \o rest : rest \in OrderDesc(S \ {r})} : r \in Newest(S)}

QueryCols == {"id", "result", "data_criacao", "request_id"}

\* unnest keeping the first matched node of each document only
RECURSIVE UnnestFirstMatch(_, _)
UnnestFirstMatch(q, docs) ==
    IF docs = <<>> THEN <<>>
    ELSE LET d == Head(docs)
             m == XPathEval(q, d.xml_documento)
         IN  (IF m = <<>> THEN <<>>
              ELSE <<Row(QueryCols, d.id, NoXml, d.data_criacao, 0, d.request_id, "", m[1])>>)
             \o UnnestFirstMatch(q, Tail(docs))

\* unnest(xpath(...)): one row per matched node of each document; the rows
\* are expanded from the documents already sorted, so the matches of a
\* document stay together and in document order
RECURSIVE UnnestRows(_, _)
UnnestRows(q, docs) ==
    IF docs = <<>> THEN <<>>
    ELSE LET d == Head(docs)
             m == XPathEval(q, d.xml_documento)
         IN  [i \in 1..Len(m) |->
                 Row(QueryCols, d.id, NoXml, d.data_criacao, 0, d.request_id, "", m[i])]
             \o UnnestRows(q, Tail(docs))

ExecQuery(d, by, q, filters) ==
    IF d.txn = "failed" \/ q = XpInvalid THEN {ExecRaises(d)}
    ELSE {ExecReturns(d, by, UnnestRows(q, docs)) :
             docs \in OrderDesc(FilterRows(Visible(d), filters))}

APOS == "'"

\* lines 369-374: strip, then one layer of enclosing quotes removed, double
\* or single (a text of one quote character starts and ends with it)
CleanText(t) ==
    LET s == Strip(t) IN
    IF s # <<>> /\ Head(s) = QUOTE /\ s[Len(s)] = QUOTE
    THEN SubSeq(s, 2, Len(s) - 1)
    ELSE IF s # <<>> /\ Head(s) = APOS /\ s[Len(s)] = APOS
    THEN SubSeq(s, 2, Len(s) - 1)
    ELSE s

\* lines 364-381: rows with an empty result are dropped
RECURSIVE CleanResults(_)
CleanResults(rows) ==
    IF rows = <<>> THEN <<>>
    ELSE LET r == Head(rows) IN
         (IF r.result # <<>>
          THEN <<[id |-> r.id, result |-> CleanText(r.result),
                  request_id |-> r.request_id, data_criacao |-> r.data_criacao]>>
          ELSE <<>>)
         \o CleanResults(Tail(rows))

-----------------------------------------------------------------------------
(* database.py: the methods as single calls (no other call in between)     *)

\* result['id'], XMLDocument(id=result['id'], ...): KeyError when the row
\* lacks a column
HasCols(row, cols) == cols \subseteq row.cols

NoDoc == NoneRow

insert_xml_document(d, by, xml, mv, rid, status) ==
    LET e == ExecInsert(d, by, xml, mv, rid, status)
        f == FetchOne(e.db)
        c == ConnCommit(f.db)
    IN  IF e.raised THEN [db |-> ConnRollback(e.db), raised |-> TRUE, id |-> 0]
        ELSE IF f.raised THEN [db |-> ConnRollback(f.db), raised |-> TRUE, id |-> 0]
        ELSE IF ~HasCols(f.row, {"id"})
        THEN [db |-> ConnRollback(c), raised |-> TRUE, id |-> 0]
        ELSE [db |-> c, raised |-> FALSE, id |-> f.row.id]

get_xml_document_by_id(d, by, id) ==
    { LET f == FetchOne(e.db) IN
      IF e.raised THEN [db |-> e.db, raised |-> TRUE, doc |-> NoDoc]
      ELSE IF f.raised THEN [db |-> f.db, raised |-> TRUE, doc |-> NoDoc]
      ELSE IF f.row = NoneRow THEN [db |-> f.db, raised |-> FALSE, doc |-> NoDoc]
      ELSE IF ~HasCols(f.row, DocCols) THEN [db |-> f.db, raised |-> TRUE, doc |-> NoDoc]
      ELSE [db |-> f.db, raised |-> FALSE, doc |-> f.row]
      : e \in ExecSelectById(d, by, id) }

get_latest_xml_document(d, by) ==
    { LET f == FetchOne(e.db)
          c == ConnCommit(f.db)
      IN
      IF e.raised THEN [db |-> ConnRollback(e.db), raised |-> TRUE, doc |-> NoDoc]
      ELSE IF f.raised THEN [db |-> ConnRollback(f.db), raised |-> TRUE, doc |-> NoDoc]
      ELSE IF f.row = NoneRow THEN [db |-> c, raised |-> FALSE, doc |-> NoDoc]
      ELSE IF ~HasCols(f.row, DocCols) THEN [db |-> ConnRollback(c), raised |-> TRUE, doc |-> NoDoc]
      ELSE [db |-> c, raised |-> FALSE, doc |-> f.row]
      : e \in ExecSelectLatest(_ensure_clean_transaction(d), by) }

query_xpath(d, by, q, filters) ==
    { LET f == FetchAll(e.db)
          c == ConnCommit(f.db)
      IN
      IF e.raised THEN [db |-> ConnRollback(e.db), raised |-> TRUE, results |-> <<>>]
      ELSE IF f.raised THEN [db |-> ConnRollback(f.db), raised |-> TRUE, results |-> <<>>]
      ELSE [db |-> c, raised |-> FALSE, results |-> CleanResults(f.rows)]
      : e \in ExecQuery(_ensure_clean_transaction(d), by, q, filters) }

-----------------------------------------------------------------------------
(* The service: main.py and socket_server.py over the one Database handle  *)
(* (main.py line 36); every request runs in a thread of its own            *)

NumThreads == 2
MaxOps     == 3

Threads == 1..NumThreads

RequestIds == {"r1", "r2"}

TextOk         == << <<"h">>, <<"x">> >>
TextHeaderOnly == << <<"h">> >>
TextBlank      == << <<SPACE>> >>
SvcTexts       == {TextOk, TextHeaderOnly, TextBlank, EmptyText}

MapTicker  == [ticker |-> <<"h">>]
SvcMappers == {MapTicker, <<>>}

\* what arrives on the wire: complete is FALSE when a field is missing or
\* the mapper/header is not JSON
Wires ==
    {[complete |-> FALSE, rid |-> "r1", text |-> TextOk, mapper |-> MapTicker]} \cup
    [complete : {TRUE}, rid : RequestIds, text : {TextOk}, mapper : {MapTicker}] \cup
    [complete : {TRUE}, rid : {"r1"}, text : SvcTexts \ {TextOk}, mapper : {MapTicker}] \cup
    [complete : {TRUE}, rid : {"r1"}, text : {TextOk}, mapper : SvcMappers \ {MapTicker}]

Req0 ==
    [op |-> "none", via |-> "", opId |-> 0, rid |-> "", inputError |-> "",
     id |-> 0, xpath |-> "", status |-> "", filters |-> NoFilters]

Loc0 ==
    [result |-> NoneRow, rows |-> <<>>, by |-> 0, status |-> "", docId |-> 0,
     ctx |-> "", sent |-> 0, xml |-> NoXml, mv |-> 0, is_valid |-> "unset",
     e0 |-> 0, s0 |-> 0, alone |-> FALSE, seen |-> {}]

\* the answer a caller gets; unit: a unit of work was started for the call;
\* by, e0, e1, seen: whose statement produced the rows, the insert count
\* when the call began and ended, the rows its own statement saw; alone: no
\* other operation ran between the call's begin and its end
Reply(r, l, code, accepted, unit, doc, results, e1) ==
    [opId |-> r.opId, op |-> r.op, via |-> r.via, rid |-> r.rid,
     inputError |-> r.inputError, xpath |-> r.xpath, status |-> r.status,
     filters |-> r.filters, code |-> code,
     accepted |-> accepted, unit |-> unit, doc |-> doc, results |-> results,
     by |-> l.by, e0 |-> l.e0, e1 |-> e1, seen |-> l.seen,
     alone |-> l.alone /\ started = l.s0]

\* the service after start-up, with n operations to come
SvcInit(n) ==
    /\ csvIdle
    /\ numIdle
    /\ callIdle
    /\ pc = [t \in Threads |-> "idle"]
    /\ req = [t \in Threads |-> Req0]
    /\ loc = [t \in Threads |-> Loc0]
    /\ db = DbInit
    /\ webhooks = {}
    /\ replies = {}
    /\ started = 0
    /\ opsLeft = n

\* a request gets the first thread that is free
Free(t) == pc[t] = "idle" /\ \A u \in Threads : u < t => pc[u] # "idle"

CanStart(t) == Free(t) /\ opsLeft > 0

Count == started' = started + 1 /\ opsLeft' = opsLeft - 1

Start(t, label, r, l) ==
    /\ pc' = [pc EXCEPT ![t] = label]
    /\ req' = [req EXCEPT ![t] = r]
    /\ loc' = [loc EXCEPT ![t] = l]
    /\ Count

Goto(t, label, l) ==
    /\ pc' = [pc EXCEPT ![t] = label]
    /\ loc' = [loc EXCEPT ![t] = l]
    /\ UNCHANGED req

\* the thread ends
Done(t) ==
    /\ pc' = [pc EXCEPT ![t] = "idle"]
    /\ req' = [req EXCEPT ![t] = Req0]
    /\ loc' = [loc EXCEPT ![t] = Loc0]

-----------------------------------------------------------------------------
(* The write unit of work: process_csv_async (main.py lines 39-99) and     *)
(* process_csv_from_socket (socket_server.py lines 44-131)                 *)

\* csv_content.strip() is empty
IsBlankText(text) == \A i \in DOMAIN text : Strip(text[i]) = <<>>

\* socket_server.py lines 62-76: the worker's own checks before generating
SocketPreludeRaises(r) ==
    \/ r.text = EmptyText
    \/ DOMAIN r.mapper = {}
    \/ r.rid = ""
    \/ IsBlankText(r.text)

\* a send_webhook without its try/except: a transport failure leaves the
\* call as an exception (a variant, to show what the except is for)
send_webhook_raising(r, l, delivered) ==
    [raised |-> ~delivered,
     post   |-> [unit |-> r.opId, rid |-> r.rid, status |-> l.status,
                 docId |-> l.docId, delivered |-> delivered, n |-> l.sent + 1,
                 ctx |-> l.ctx, is_valid |-> l.is_valid]]

\* send_webhook (main.py lines 102-135, socket_server.py lines 19-41): the
\* POST is inside try/except Exception, so the call returns normally whether
\* or not the transport delivered
send_webhook(r, l, delivered) ==
    [raised |-> FALSE,
     post   |-> [unit |-> r.opId, rid |-> r.rid, status |-> l.status,
                 docId |-> l.docId, delivered |-> delivered, n |-> l.sent + 1,
                 ctx |-> l.ctx, is_valid |-> l.is_valid]]

\* a worker whose outer except sends nothing (a variant, to show that the
\* notification of a failed generation comes from that except)
NotifySkipsOuter(r, l, delivered) ==
    IF l.ctx = "outer_handler" THEN {} ELSE {send_webhook(r, l, delivered).post}

\* the send_webhook call of the path the unit took, and the calls that
\* follow when an exception out of it reaches the enclosing except: the
\* inner one (ERRO_PERSISTENCIA) from inside the inner try, the outer one
\* (ERRO_VALIDACAO) from the inner handler or the outer try
RECURSIVE Notify(_, _, _)
Notify(r, l, delivered) ==
    LET w    == send_webhook(r, l, delivered)
        next == [l EXCEPT !.sent = @ + 1, !.docId = 0]
    IN  IF ~w.raised \/ l.ctx = "outer_handler" THEN {w.post}
        ELSE IF l.ctx = "inner_try"
        THEN {w.post} \cup Notify(r, [next EXCEPT !.status = "ERRO_PERSISTENCIA",
                                                  !.ctx = "inner_handler"], delivered)
        ELSE {w.post} \cup Notify(r, [next EXCEPT !.status = "ERRO_VALIDACAO",
                                                  !.ctx = "outer_handler"], delivered)

\* a worker that goes on to the insert whatever validate_xml said (a
\* variant, to show that the validation branch is what keeps an invalid
\* document out of the store)
GenerateKeepsInvalid(via, w, g, xsd) ==
    IF (via = "socket" /\ SocketPreludeRaises(w)) \/ ~g.ok
    THEN [at |-> "end", loc |-> [Loc0 EXCEPT !.status = "ERRO_VALIDACAO",
                                             !.ctx = "outer_handler"]]
    ELSE [at |-> "ins_exec",
          loc |-> [Loc0 EXCEPT !.xml = XmlOf(g.ativos),
                               !.mv = get_mapper_version(w.mapper),
                               !.is_valid =
                                  IF validate_xml(XmlOf(g.ativos), xsd).valid
                                  THEN "valid" ELSE "invalid"]]

\* steps 1 and 2 of the worker, which touch nothing shared: generate (g is
\* what generate_xml_from_csv made of the submission), then validate; xsd is
\* what the schema of the deployment says about the generated document.
\* The result is where the worker stands afterwards.
Generate(via, w, g, xsd) ==
    IF (via = "socket" /\ SocketPreludeRaises(w)) \/ ~g.ok
    THEN \* outer except
         [at |-> "end", loc |-> [Loc0 EXCEPT !.status = "ERRO_VALIDACAO",
                                             !.ctx = "outer_handler"]]
    ELSE IF ~validate_xml(XmlOf(g.ativos), xsd).valid
    THEN [at |-> "end", loc |-> [Loc0 EXCEPT !.status = "ERRO_VALIDACAO",
                                             !.ctx = "outer_try",
                                             !.is_valid = "invalid"]]
    ELSE [at |-> "ins_exec", loc |-> [Loc0 EXCEPT !.xml = XmlOf(g.ativos),
                                                  !.mv = get_mapper_version(w.mapper),
                                                  !.is_valid = "valid"]]

\* inputError: the InputError the submission carries, as generate_xml_from_csv
\* names it ("csv_empty", "mapper_empty", "no_rows"), "" when it has none
UploadReq(via, w, g) ==
    [Req0 EXCEPT !.op = "upload", !.via = via, !.opId = started + 1,
                 !.rid = w.rid, !.inputError = IF w.complete THEN g.error ELSE ""]

\* the worker thread from its start up to its first statement on the
\* Database handle, or up to its end when it has none
StartWorker(t, r, at, l, delivered) ==
    IF at = "end"
    THEN /\ webhooks' = webhooks \cup Notify(r, l, delivered)
         /\ Count
         /\ UNCHANGED <<pc, req, loc>>
    ELSE /\ Start(t, at, r, l)
         /\ UNCHANGED webhooks

\* POST /api/upload (main.py lines 144-209): 400, or the worker thread is
\* started and 202 is answered
upload_csv(t, w, xsd, delivered) ==
    /\ CanStart(t)
    /\ \E g \in {generate_xml_from_csv(w.text, w.mapper)} :
       \E r \in {UploadReq("http", w, g)} :
       \E k \in {Generate("http", w, g, xsd)} :
          IF ~w.complete
          THEN /\ replies' = replies \cup {Reply(r, Loc0, 400, FALSE, FALSE, NoDoc, <<>>, 0)}
               /\ Count
               /\ UNCHANGED <<pc, req, loc, webhooks>>
          ELSE /\ replies' = replies \cup {Reply(r, Loc0, 202, TRUE, TRUE, NoDoc, <<>>, 0)}
               /\ StartWorker(t, r, k.at, k.loc, delivered)
    /\ UNCHANGED <<csvVars, numVars, callVars, db>>

\* socket_server.py lines 163-276: the message is parsed and checked, the
\* worker thread is started, then the ACK is sent; when sendall raises, the
\* except branch answers accepted=false
handle_client_connection(t, w, xsd, sent, delivered) ==
    /\ CanStart(t)
    /\ \E g \in {generate_xml_from_csv(w.text, w.mapper)} :
       \E r \in {UploadReq("socket", w, g)} :
       \E k \in {Generate("socket", w, g, xsd)} :
          IF ~w.complete \/ w.text = EmptyText \/ w.rid = "" \/ DOMAIN w.mapper = {}
          THEN /\ replies' = replies \cup {Reply(r, Loc0, 0, FALSE, FALSE, NoDoc, <<>>, 0)}
               /\ Count
               /\ UNCHANGED <<pc, req, loc, webhooks>>
          ELSE /\ replies' = replies \cup {Reply(r, Loc0, 0, sent, TRUE, NoDoc, <<>>, 0)}
               /\ StartWorker(t, r, k.at, k.loc, delivered)
    /\ UNCHANGED <<csvVars, numVars, callVars, db>>

\* insert_xml_document line 138: cursor.execute(INSERT ...)
InsertExecute(t) ==
    /\ pc[t] = "ins_exec"
    /\ LET e == ExecInsert(db, req[t].opId, loc[t].xml, loc[t].mv, req[t].rid, "OK")
       IN  /\ db' = e.db
           /\ Goto(t, IF e.raised THEN "ins_rollback" ELSE "ins_fetch", loc[t])
    /\ UNCHANGED <<csvVars, numVars, callVars, webhooks, replies, started, opsLeft>>

\* line 139: result = cursor.fetchone()
InsertFetch(t) ==
    /\ pc[t] = "ins_fetch"
    /\ LET f == FetchOne(db)
       IN  /\ db' = f.db
           /\ Goto(t, IF f.raised THEN "ins_rollback" ELSE "ins_commit",
                   [loc[t] EXCEPT !.result = f.row, !.by = f.by])
    /\ UNCHANGED <<csvVars, numVars, callVars, webhooks, replies, started, opsLeft>>

\* lines 140-143: conn.commit(), then document_id = result['id']; back in
\* the worker, send_webhook(..., "OK", document_id)
InsertCommit(t, delivered) ==
    /\ pc[t] = "ins_commit"
    /\ db' = ConnCommit(db)
    /\ IF HasCols(loc[t].result, {"id"})
       THEN /\ webhooks' = webhooks \cup
                 Notify(req[t], [loc[t] EXCEPT !.docId = loc[t].result.id,
                                               !.status = "OK", !.ctx = "inner_try"],
                        delivered)
            /\ Done(t)
       ELSE /\ Goto(t, "ins_rollback", loc[t])
            /\ UNCHANGED webhooks
    /\ UNCHANGED <<csvVars, numVars, callVars, replies, started, opsLeft>>

\* lines 144-147: conn.rollback(), raise; the worker's except sends
\* ERRO_PERSISTENCIA
InsertRollback(t, delivered) ==
    /\ pc[t] = "ins_rollback"
    /\ db' = ConnRollback(db)
    /\ webhooks' = webhooks \cup
         Notify(req[t], [loc[t] EXCEPT !.docId = 0, !.status = "ERRO_PERSISTENCIA",
                                       !.ctx = "inner_handler"], delivered)
    /\ Done(t)
    /\ UNCHANGED <<csvVars, numVars, callVars, replies, started, opsLeft>>

-----------------------------------------------------------------------------
(* The REST reads of main.py, each in its request thread, on the same      *)
(* Database handle                                                         *)

DocIds   == {1}
XPaths   == {XpTicker, XpInvalid}
Statuses == {"", "ERRO_VALIDACAO"}

ReadReq(op) == [Req0 EXCEPT !.op = op, !.via = "rest", !.opId = started + 1]

ReadLoc(t) ==
    [Loc0 EXCEPT !.e0 = db.nextId, !.s0 = started + 1,
                 !.alone = \A u \in Threads \ {t} : pc[u] = "idle"]

Answer(t, code, doc, results) ==
    /\ replies' = replies \cup
          {Reply(req[t], loc[t], code, code = 200, FALSE, doc, results, db.nextId)}
    /\ Done(t)

\* GET /api/latest/xml (main.py lines 246-267)
get_latest_xml(t) ==
    /\ CanStart(t)
    /\ Start(t, "gl_clean", ReadReq("get_latest"), ReadLoc(t))
    /\ UNCHANGED <<csvVars, numVars, callVars, db, webhooks, replies>>

\* get_latest_xml_document line 187
LatestClean(t) ==
    /\ pc[t] = "gl_clean"
    /\ db' = _ensure_clean_transaction(db)
    /\ Goto(t, "gl_exec", loc[t])
    /\ UNCHANGED <<csvVars, numVars, callVars, webhooks, replies, started, opsLeft>>

\* line 189
LatestExecute(t) ==
    /\ pc[t] = "gl_exec"
    /\ \E e \in ExecSelectLatest(db, req[t].opId) :
          /\ db' = e.db
          /\ Goto(t, IF e.raised THEN "gl_rollback" ELSE "gl_fetch",
                  [loc[t] EXCEPT !.seen = {r \in Visible(db) : r.status = "OK"}])
    /\ UNCHANGED <<csvVars, numVars, callVars, webhooks, replies, started, opsLeft>>

\* line 190
LatestFetch(t) ==
    /\ pc[t] = "gl_fetch"
    /\ LET f == FetchOne(db)
       IN  /\ db' = f.db
           /\ Goto(t, IF f.raised THEN "gl_rollback" ELSE "gl_commit",
                   [loc[t] EXCEPT !.result = f.row, !.by = f.by])
    /\ UNCHANGED <<csvVars, numVars, callVars, webhooks, replies, started, opsLeft>>

\* lines 191-201: commit, then the row becomes an XMLDocument or None
LatestCommit(t) ==
    /\ pc[t] = "gl_commit"
    /\ db' = ConnCommit(db)
    /\ IF loc[t].result = NoneRow
       THEN Answer(t, 404, NoDoc, <<>>)
       ELSE IF HasCols(loc[t].result, DocCols)
       THEN Answer(t, 200, loc[t].result, <<>>)
       ELSE /\ Goto(t, "gl_rollback", loc[t])
            /\ UNCHANGED replies
    /\ UNCHANGED <<csvVars, numVars, callVars, webhooks, started, opsLeft>>

\* lines 202-209, then main.py line 266
LatestRollback(t) ==
    /\ pc[t] = "gl_rollback"
    /\ db' = ConnRollback(db)
    /\ Answer(t, 500, NoDoc, <<>>)
    /\ UNCHANGED <<csvVars, numVars, callVars, webhooks, started, opsLeft>>

\* GET /api/documents/<id> (main.py lines 212-229)
get_document(t, id) ==
    /\ CanStart(t)
    /\ Start(t, "gb_exec", [ReadReq("get_by_id") EXCEPT !.id = id],
             ReadLoc(t))
    /\ UNCHANGED <<csvVars, numVars, callVars, db, webhooks, replies>>

\* get_xml_document_by_id line 159; no rollback when it raises (171-173)
ByIdExecute(t) ==
    /\ pc[t] = "gb_exec"
    /\ \E e \in ExecSelectById(db, req[t].opId, req[t].id) :
          /\ db' = e.db
          /\ IF e.raised
             THEN Answer(t, 500, NoDoc, <<>>)
             ELSE /\ Goto(t, "gb_fetch",
                          [loc[t] EXCEPT !.seen = {r \in Visible(db) : r.id = req[t].id}])
                  /\ UNCHANGED replies
    /\ UNCHANGED <<csvVars, numVars, callVars, webhooks, started, opsLeft>>

\* lines 160-170
ByIdFetch(t) ==
    /\ pc[t] = "gb_fetch"
    /\ LET f == FetchOne(db)
           l == [loc[t] EXCEPT !.result = f.row, !.by = f.by]
       IN  /\ db' = f.db
           /\ replies' = replies \cup
                {IF f.raised THEN Reply(req[t], l, 500, FALSE, FALSE, NoDoc, <<>>, db.nextId)
                 ELSE IF f.row = NoneRow
                 THEN Reply(req[t], l, 404, FALSE, FALSE, NoDoc, <<>>, db.nextId)
                 ELSE IF HasCols(f.row, DocCols)
                 THEN Reply(req[t], l, 200, TRUE, FALSE, f.row, <<>>, db.nextId)
                 ELSE Reply(req[t], l, 500, FALSE, FALSE, NoDoc, <<>>, db.nextId)}
           /\ Done(t)
    /\ UNCHANGED <<csvVars, numVars, callVars, webhooks, started, opsLeft>>

\* main.py lines 278-286, grpc_server.py lines 40-48: the filters the
\* transports build always carry a status, 'OK' when the caller gave none
TransportFilters(status) == StatusFilter(IF status # "" THEN status ELSE "OK")

\* GET /api/xpath/query (main.py lines 270-304)
rest_query_xpath(t, q, status) ==
    /\ CanStart(t)
    /\ Start(t, "qx_clean",
             [ReadReq("query") EXCEPT !.xpath = q, !.status = status,
                                      !.filters = TransportFilters(status)],
             ReadLoc(t))
    /\ UNCHANGED <<csvVars, numVars, callVars, db, webhooks, replies>>

\* query_xpath line 358
QueryClean(t) ==
    /\ pc[t] = "qx_clean"
    /\ db' = _ensure_clean_transaction(db)
    /\ Goto(t, "qx_exec", loc[t])
    /\ UNCHANGED <<csvVars, numVars, callVars, webhooks, replies, started, opsLeft>>

\* line 360
QueryExecute(t) ==
    /\ pc[t] = "qx_exec"
    /\ \E e \in ExecQuery(db, req[t].opId, req[t].xpath, req[t].filters) :
          /\ db' = e.db
          /\ Goto(t, IF e.raised THEN "qx_rollback" ELSE "qx_fetch",
                  [loc[t] EXCEPT !.seen = FilterRows(Visible(db), req[t].filters)])
    /\ UNCHANGED <<csvVars, numVars, callVars, webhooks, replies, started, opsLeft>>

\* line 361
QueryFetch(t) ==
    /\ pc[t] = "qx_fetch"
    /\ LET f == FetchAll(db)
       IN  /\ db' = f.db
           /\ Goto(t, IF f.raised THEN "qx_rollback" ELSE "qx_commit",
                   [loc[t] EXCEPT !.rows = f.rows, !.by = f.by])
    /\ UNCHANGED <<csvVars, numVars, callVars, webhooks, replies, started, opsLeft>>

\* lines 362-381
QueryCommit(t) ==
    /\ pc[t] = "qx_commit"
    /\ db' = ConnCommit(db)
    /\ Answer(t, 200, NoDoc, CleanResults(loc[t].rows))
    /\ UNCHANGED <<csvVars, numVars, callVars, webhooks, started, opsLeft>>

\* lines 382-389, then main.py line 304
QueryRollback(t) ==
    /\ pc[t] = "qx_rollback"
    /\ db' = ConnRollback(db)
    /\ Answer(t, 500, NoDoc, <<>>)
    /\ UNCHANGED <<csvVars, numVars, callVars, webhooks, started, opsLeft>>

-----------------------------------------------------------------------------
(* Spec: reads and write units of work running concurrently on the one     *)
(* Database handle. The uploads are the ones that reach the store or are   *)
(* turned down by the schema; the notification transport delivers.         *)

Init == SvcInit(MaxOps)

GoodWires == {w \in Wires : w.complete /\ generate_xml_from_csv(w.text, w.mapper).ok}

Next ==
    \/ \E t \in Threads, w \in GoodWires, xsd \in {"absent", "rejects"} :
          upload_csv(t, w, xsd, TRUE)
    \/ \E t \in Threads : InsertExecute(t)
    \/ \E t \in Threads : InsertFetch(t)
    \/ \E t \in Threads : InsertCommit(t, TRUE)
    \/ \E t \in Threads : InsertRollback(t, TRUE)
    \/ \E t \in Threads : get_latest_xml(t)
    \/ \E t \in Threads : LatestClean(t)
    \/ \E t \in Threads : LatestExecute(t)
    \/ \E t \in Threads : LatestFetch(t)
    \/ \E t \in Threads : LatestCommit(t)
    \/ \E t \in Threads : LatestRollback(t)
    \/ \E t \in Threads, id \in DocIds : get_document(t, id)
    \/ \E t \in Threads : ByIdExecute(t)
    \/ \E t \in Threads : ByIdFetch(t)
    \/ \E t \in Threads, q \in XPaths, s \in Statuses : rest_query_xpath(t, q, s)
    \/ \E t \in Threads : QueryClean(t)
    \/ \E t \in Threads : QueryExecute(t)
    \/ \E t \in Threads : QueryFetch(t)
    \/ \E t \in Threads : QueryCommit(t)
    \/ \E t \in Threads : QueryRollback(t)

Spec == Init /\ [][Next]_vars

-----------------------------------------------------------------------------
(* SpecWrite: the two accept paths with every kind of submission, and the  *)
(* write units of work they start                                          *)

MaxWriteOps == 2

InitWrite == SvcInit(MaxWriteOps)

NextWrite ==
    \/ \E t \in Threads, w \in Wires, xsd \in XsdVerdicts, delivered \in BOOLEAN :
          upload_csv(t, w, xsd, delivered)
    \/ \E t \in Threads, w \in Wires, xsd \in XsdVerdicts, sent \in BOOLEAN,
          delivered \in BOOLEAN :
          handle_client_connection(t, w, xsd, sent, delivered)
    \/ \E t \in Threads : InsertExecute(t)
    \/ \E t \in Threads : InsertFetch(t)
    \/ \E t \in Threads, delivered \in BOOLEAN : InsertCommit(t, delivered)
    \/ \E t \in Threads, delivered \in BOOLEAN : InsertRollback(t, delivered)

SpecWrite == InitWrite /\ [][NextWrite]_vars

\* the scheduler lets every worker thread that can take its next step on
\* the Database handle take it: a started thread is not starved forever
FairWrite ==
    \A t \in Threads :
       /\ WF_vars(InsertExecute(t))
       /\ WF_vars(InsertFetch(t))
       /\ WF_vars(\E delivered \in BOOLEAN : InsertCommit(t, delivered))
       /\ WF_vars(\E delivered \in BOOLEAN : InsertRollback(t, delivered))

SpecWriteFair == SpecWrite /\ FairWrite

-----------------------------------------------------------------------------
(* SpecLatest: write units of work and getLatestDocument only, with one    *)
(* more operation than Spec                                                *)

MaxLatestOps == 4

InitLatest == SvcInit(MaxLatestOps)

NextLatest ==
    \/ \E t \in Threads, w \in GoodWires : upload_csv(t, w, "absent", TRUE)
    \/ \E t \in Threads : InsertExecute(t)
    \/ \E t \in Threads : InsertFetch(t)
    \/ \E t \in Threads : InsertCommit(t, TRUE)
    \/ \E t \in Threads : InsertRollback(t, TRUE)
    \/ \E t \in Threads : get_latest_xml(t)
    \/ \E t \in Threads : LatestClean(t)
    \/ \E t \in Threads : LatestExecute(t)
    \/ \E t \in Threads : LatestFetch(t)
    \/ \E t \in Threads : LatestCommit(t)
    \/ \E t \in Threads : LatestRollback(t)

SpecLatest == InitLatest /\ [][NextLatest]_vars

-----------------------------------------------------------------------------
(* SpecDb: the Database methods and the query handlers of the transports,  *)
(* one call at a time; a row may carry any status (insert_xml_document     *)
(* takes it as a parameter, line 128)                                      *)

MaxDbOps == 4

DbStatuses == {"OK", "ERRO_VALIDACAO"}

DbFilters == {NoFilters, EmptyFilters, StatusFilter("OK"), StatusFilter("ERRO_VALIDACAO")}

InitDb == SvcInit(MaxDbOps)

DbCall(op, via) == [Req0 EXCEPT !.op = op, !.via = via, !.opId = started + 1]

\* Database.insert_xml_document(xml, version, request_id, status)
DbInsert(rid, status) ==
    /\ opsLeft > 0
    /\ \E g \in {generate_xml_from_csv(TextOk, MapTicker)} :
       \E o \in {insert_xml_document(db, started + 1, XmlOf(g.ativos),
                                     get_mapper_version(MapTicker), rid, status)} :
          /\ db' = o.db
          /\ replies' = replies \cup
               {Reply([DbCall("insert", "api") EXCEPT !.rid = rid],
                      [Loc0 EXCEPT !.docId = o.id, !.e0 = db.nextId, !.seen = Visible(db)],
                      IF o.raised THEN 500 ELSE 200, ~o.raised, FALSE, NoDoc, <<>>,
                      o.db.nextId)}
    /\ Count
    /\ UNCHANGED <<csvVars, numVars, callVars, pc, req, loc, webhooks>>

\* one query_xpath call on a connection with no call in progress
QueryCall(r) ==
    /\ opsLeft > 0
    /\ \E o \in query_xpath(db, r.opId, r.xpath, r.filters) :
          /\ db' = o.db
          /\ replies' = replies \cup
               {Reply(r, [Loc0 EXCEPT !.by = r.opId, !.e0 = db.nextId, !.seen = Visible(db),
                                      !.s0 = started, !.alone = TRUE],
                      IF o.raised THEN 500 ELSE 200, ~o.raised, FALSE, NoDoc, o.results,
                      o.db.nextId)}
    /\ Count
    /\ UNCHANGED <<csvVars, numVars, callVars, pc, req, loc, webhooks>>

\* Database.query_xpath(xpath_query, filters) called directly
DbQuery(q, filters) ==
    QueryCall([DbCall("query", "api") EXCEPT !.xpath = q, !.status = filters.status,
                                              !.filters = filters])

\* GET /api/xpath/query (main.py lines 270-304) as one call
RestQuery(q, status) ==
    QueryCall([DbCall("query", "rest") EXCEPT !.xpath = q, !.status = status,
                                               !.filters = TransportFilters(status)])

\* XmlQueryService.ExecuteXPath (grpc_server.py lines 37-79) as one call; the
\* servicer has a Database of its own over the same table
GrpcExecuteXPath(q, status) ==
    QueryCall([DbCall("query", "grpc") EXCEPT !.xpath = q, !.status = status,
                                               !.filters = TransportFilters(status)])

NextDb ==
    \/ \E rid \in RequestIds \cup {"r3"}, st \in DbStatuses : DbInsert(rid, st)
    \/ \E q \in XPaths, f \in DbFilters : DbQuery(q, f)
    \/ \E q \in XPaths, st \in {"", "ERRO_VALIDACAO"} : RestQuery(q, st)
    \/ \E q \in XPaths, st \in {"", "ERRO_VALIDACAO"} : GrpcExecuteXPath(q, st)

SpecDb == InitDb /\ [][NextDb]_vars

-----------------------------------------------------------------------------
(* database.py: aggregate_xpath (lines 391-440)                            *)

\* the aggregate_func argument is a text; it is written here as the sequence
\* of the SQL lexemes it holds
AggregateFuncs == {<<"count">>, <<"sum">>, <<"avg">>, <<"min">>, <<"max">>}

\* lines 399-402: '/text()' is appended to a path that neither ends with it
\* nor selects an attribute in its last step
NormalizedXPath(q) == IF q = XpMarketCap THEN XpMarketCapText ELSE q

SLASH == "/"
AT    == "@"

TextSuffix == <<SLASH, "t", "e", "x", "t", "(", ")">>

\* str.endswith
EndsWith(s, suffix) ==
    Len(s) >= Len(suffix) /\ SubSeq(s, Len(s) - Len(suffix) + 1, Len(s)) = suffix

\* normalized_query.split('/')[-1]: what follows the last '/' of the text
LastSegment(s) == SubSeq(s, LastIndexOf(s, SLASH, Len(s)) + 1, Len(s))

\* lines 399-402 on the text of the path, character by character
normalized_query(xpath_query) ==
    LET stripped == Strip(xpath_query) IN
    IF ~EndsWith(stripped, TextSuffix) /\ AT \notin Range(LastSegment(stripped))
    THEN stripped \o TextSuffix
    ELSE stripped

SEMI == ";"

\* the statements that aggregate_func adds to the text of lines 405-415
SqlSelectOne    == <<"SELECT", "1">>
SqlDeleteAll    == <<"DELETE", "FROM", "xml_documents">>
SqlUpdateStatus == <<"UPDATE", "xml_documents", "SET", "status", "=", "'ERRO_VALIDACAO'">>
SqlCommit       == <<"COMMIT">>

\* the pieces of a text between its semicolons
RECURSIVE SqlSplit(_, _, _)
SqlSplit(toks, cur, acc) ==
    IF toks = <<>> THEN Append(acc, cur)
    ELSE IF Head(toks) = SEMI THEN SqlSplit(Tail(toks), <<>>, Append(acc, cur))
    ELSE SqlSplit(Tail(toks), Append(cur, Head(toks)), acc)

\* line 414, f"{aggregate_func}((unnest(...": the statements of the text sent
\* to the server. The first piece of aggregate_func follows the SELECT of
\* line 413, the last piece precedes the "((unnest(xpath(...)))::numeric)
\* as result FROM latest_xml" of lines 414-415.
SqlStatements(func) ==
    LET pieces == SqlSplit(func, <<>>, <<>>)
        n      == Len(pieces)
    IN  IF n = 1 THEN << [kind |-> "aggregate", toks |-> <<"SELECT">> \o pieces[1]] >>
        ELSE << [kind |-> "plain", toks |-> <<"SELECT">> \o pieces[1]] >>
             \o [i \in 1..(n - 2) |-> [kind |-> "plain", toks |-> pieces[i + 1]]]
             \o << [kind |-> "aggregate", toks |-> pieces[n]] >>

\* the server parses the whole text before it runs any statement of it
SqlParses(st) ==
    IF st.kind = "plain"
    THEN st.toks \in {SqlSelectOne, SqlDeleteAll, SqlUpdateStatus, SqlCommit}
    ELSE Len(st.toks) = 2 /\ st.toks[1] = "SELECT"

\* one statement that runs to its end
SqlRun(d, st) ==
    IF st.toks = SqlDeleteAll
    THEN [Begin(d) EXCEPT !.deleted = {r.id : r \in d.store}, !.pending = {}]
    ELSE IF st.toks = SqlUpdateStatus
    THEN [Begin(d) EXCEPT !.deleted = {r.id : r \in d.store},
                          !.pending = {[r EXCEPT !.status = "ERRO_VALIDACAO"] : r \in Visible(d)}]
    ELSE IF st.toks = SqlCommit THEN ConnCommit(d)
    ELSE Begin(d)

\* the statements run in order up to the first that raises
RECURSIVE SqlRunAll(_, _)
SqlRunAll(d, sts) ==
    IF sts = <<>> THEN d
    ELSE IF Head(sts).kind = "aggregate" THEN d
    ELSE SqlRunAll(SqlRun(d, Head(sts)), Tail(sts))

\* cursor.execute of the statement of lines 405-415 (line 421). Its last
\* statement applies a function to the set-returning unnest(...): PostgreSQL
\* refuses that for every aggregate and every path ("aggregate function
\* calls cannot contain set-returning function calls"; before version 10,
\* "set-valued function called in context that cannot accept a set"), and a
\* name that is no function is refused as well, so the call raises. What
\* the statements before it did stays in the transaction they ran in.
ExecAggregate(d, by, q, func) ==
    LET sts == SqlStatements(func) IN
    IF \A i \in DOMAIN sts : SqlParses(sts[i])
    THEN ExecRaises(SqlRunAll(d, sts))
    ELSE ExecRaises(d)

\* aggregate_xpath without the rollback of its except branch
aggregate_xpath_no_rollback(d, by, q, func) ==
    LET e == ExecAggregate(_ensure_clean_transaction(d), by, NormalizedXPath(q), func)
    IN  [db |-> e.db, raised |-> FALSE, out |-> <<ZERO>>]

\* aggregate_xpath(xpath_query, aggregate_func): str(result), or '0' for a
\* NULL result and for any exception
aggregate_xpath(d, by, q, func) ==
    LET e == ExecAggregate(_ensure_clean_transaction(d), by, NormalizedXPath(q), func)
        f == FetchOne(e.db)
        c == ConnCommit(f.db)
    IN  IF e.raised THEN [db |-> ConnRollback(e.db), raised |-> FALSE, out |-> <<ZERO>>]
        ELSE IF f.raised THEN [db |-> ConnRollback(f.db), raised |-> FALSE, out |-> <<ZERO>>]
        ELSE IF f.row = NoneRow \/ f.row.result = NoneV
        THEN [db |-> c, raised |-> FALSE, out |-> <<ZERO>>]
        ELSE [db |-> c, raised |-> FALSE, out |-> f.row.result]

-----------------------------------------------------------------------------
(* database.py: the analytics views over the latest OK document            *)
(* (lines 442-668)                                                         *)

DefaultTipo == <<"Cryptocurrency">>

\* float(text.strip()): the parsed value, or ValueError
FloatOf(t) == PyFloat(Strip(t))

Parsable(t) == FloatOf(t).kind # "error"

\* the digits of a number of hundredths
HundredthDigits(ip, fp) ==
    ip \o (IF Len(fp) >= 2 THEN SubSeq(fp, 1, 2) ELSE fp \o Zeros(2 - Len(fp)))

\* a float as a number of hundredths (the values of the documents below have
\* at most two fraction digits)
ValueOf(x) ==
    IF x.kind # "finite" THEN 0
    ELSE IF x.neg THEN 0 - DigitsToNat(HundredthDigits(IntDigits(x), FracDigits(x)))
    ELSE DigitsToNat(HundredthDigits(IntDigits(x), FracDigits(x)))

FloatValue(t) == ValueOf(FloatOf(t))

\* list.sort(key=..., reverse=True): by key k descending, entries of equal
\* key in their original order
RECURSIVE SortDesc(_)
SortDesc(s) ==
    IF s = <<>> THEN <<>>
    ELSE LET x    == s[Len(s)]
             done == SortDesc(SubSeq(s, 1, Len(s) - 1))
             n    == Cardinality({i \in DOMAIN done : done[i].k >= x.k})
         IN  SubSeq(done, 1, n) \o <<x>> \o SubSeq(done, n + 1, Len(done))

\* list.sort(key=..., reverse=False)
RECURSIVE SortAsc(_)
SortAsc(s) ==
    IF s = <<>> THEN <<>>
    ELSE LET x    == s[Len(s)]
             done == SortAsc(SubSeq(s, 1, Len(s) - 1))
             n    == Cardinality({i \in DOMAIN done : done[i].k <= x.k})
         IN  SubSeq(done, 1, n) \o <<x>> \o SubSeq(done, n + 1, Len(done))

\* s[:limit]
Take(s, limit) ==
    IF limit >= 0 THEN SubSeq(s, 1, IF limit < Len(s) THEN limit ELSE Len(s))
    ELSE SubSeq(s, 1, Len(s) + limit)

\* ativo_node.get('Tipo', 'Cryptocurrency').strip() or 'Cryptocurrency'
TipoOf(a) == IF a.Tipo = Absent \/ Strip(a.Tipo) = <<>> THEN DefaultTipo ELSE Strip(a.Tipo)

\* nome_nodes[0].strip() if nome_nodes else ''
NomeOf(a) == IF a.Nome = Absent THEN <<>> ELSE Strip(a.Nome)

\* nodes[0].strip() if nodes else '0'
TextOrZero(t) == IF t = Absent THEN <<ZERO>> ELSE Strip(t)

\* float(text), 0.0 when it does not parse
FloatOrZero(t) == ValueOf(FloatOf(t))

\* lines 462-494: the entries of the assets that pass the filters
TopEntries(ativos, tipo) ==
    LET F[i \in 0..Len(ativos)] ==
          IF i = 0 THEN <<>>
          ELSE LET a              == ativos[i]
                   ticker         == Strip(a.Ticker)
                   tipo_ativo     == TipoOf(a)
                   market_cap_str == TextOrZero(a.MarketCap)
               IN  IF tipo # NoneV /\ tipo # <<>> /\ tipo_ativo # tipo THEN F[i - 1]
                   ELSE IF ticker = <<>> \/ market_cap_str = <<>> THEN F[i - 1]
                   ELSE Append(F[i - 1],
                               [ticker |-> ticker, nome |-> NomeOf(a),
                                tipo |-> tipo_ativo, at |-> i,
                                k |-> FloatOrZero(market_cap_str)])
    IN  F[Len(ativos)]

\* what a view makes of the outcome of get_latest_xml_document: the
\* exception passed on, [] with no document, the exception of
\* etree.fromstring re-raised, or its result
OverLatest(o, result) ==
    IF o.raised THEN [db |-> o.db, raised |-> TRUE, out |-> <<>>]
    ELSE IF o.doc = NoDoc THEN [db |-> o.db, raised |-> FALSE, out |-> <<>>]
    ELSE IF ~o.doc.xml_documento.wellFormed
    THEN [db |-> o.db, raised |-> TRUE, out |-> <<>>]
    ELSE [db |-> o.db, raised |-> FALSE, out |-> result]

\* get_top_marketcap_latest(limit, tipo)
get_top_marketcap_latest(d, by, limit, tipo) ==
    { OverLatest(o, Take(SortDesc(TopEntries(o.doc.xml_documento.ativos, tipo)), limit))
      : o \in get_latest_xml_document(d, by) }

\* the distinct types in the order of their first asset (dict insertion)
RECURSIVE TiposOf(_, _)
TiposOf(ativos, acc) ==
    IF ativos = <<>> THEN acc
    ELSE TiposOf(Tail(ativos),
                 IF \E i \in DOMAIN acc : acc[i] = TipoOf(Head(ativos))
                 THEN acc ELSE Append(acc, TipoOf(Head(ativos))))

RECURSIVE Sum(_)
Sum(s) == IF s = <<>> THEN 0 ELSE Head(s) + Sum(Tail(s))

\* the values of one field over the assets of a type, an unparsable text
\* counted as 0.0
RECURSIVE ParsedOrZero(_, _, _)
ParsedOrZero(ativos, tipo, field) ==
    IF ativos = <<>> THEN <<>>
    ELSE LET a == Head(ativos) IN
         (IF TipoOf(a) = tipo /\ a[field] # Absent
          THEN <<FloatOrZero(a[field])>> ELSE <<>>)
         \o ParsedOrZero(Tail(ativos), tipo, field)

\* the values of one field over the assets of a type, for those that have
\* the node and whose text parses (lines 540-568)
RECURSIVE ParsedOf(_, _, _)
ParsedOf(ativos, tipo, field) ==
    IF ativos = <<>> THEN <<>>
    ELSE LET a == Head(ativos) IN
         (IF TipoOf(a) = tipo /\ a[field] # Absent /\ Parsable(a[field])
          THEN <<FloatValue(a[field])>> ELSE <<>>)
         \o ParsedOf(Tail(ativos), tipo, field)

\* sum(xs) / len(xs) if xs else 0.0, as a fraction
MeanOf(xs) ==
    IF xs = <<>> THEN [num |-> 0, den |-> 1] ELSE [num |-> Sum(xs), den |-> Len(xs)]

\* lines 571-588: one entry per type
StatsEntries(ativos) ==
    LET tipos == TiposOf(ativos, <<>>) IN
    [g \in DOMAIN tipos |->
        LET n == Cardinality({i \in DOMAIN ativos : TipoOf(ativos[i]) = tipos[g]}) IN
        [tipo             |-> tipos[g],
         total_ativos     |-> n,
         avg_preco        |-> MeanOf(ParsedOf(ativos, tipos[g], "PrecoAtual")),
         total_volume     |-> Sum(ParsedOf(ativos, tipos[g], "Negociado")),
         avg_variacao_pct |-> MeanOf(ParsedOf(ativos, tipos[g], "Pct")),
         k                |-> n]]

\* get_stats_by_tipo_latest()
get_stats_by_tipo_latest(d, by) ==
    { OverLatest(o, SortDesc(StatsEntries(o.doc.xml_documento.ativos)))
      : o \in get_latest_xml_document(d, by) }

\* lines 622-655 with an unparsable change counted as 0.0 instead of skipped
MoverEntriesZeroed(ativos) ==
    LET F[i \in 0..Len(ativos)] ==
          IF i = 0 THEN <<>>
          ELSE LET a == ativos[i] IN
               IF a.Pct = Absent \/ Strip(a.Ticker) = <<>> THEN F[i - 1]
               ELSE Append(F[i - 1],
                           [ticker |-> Strip(a.Ticker), nome |-> NomeOf(a),
                            preco_atual |-> FloatOrZero(TextOrZero(a.PrecoAtual)),
                            variacao_pct |-> FloatOrZero(a.Pct), at |-> i,
                            k |-> FloatOrZero(a.Pct)])
    IN  F[Len(ativos)]

\* lines 617-655: the entries of the assets that have the Pct attribute, a
\* ticker and a change that parses
MoverEntries(ativos) ==
    LET F[i \in 0..Len(ativos)] ==
          IF i = 0 THEN <<>>
          ELSE LET a == ativos[i] IN
               IF a.Pct = Absent THEN F[i - 1]
               ELSE IF Strip(a.Ticker) = <<>> THEN F[i - 1]
               ELSE IF ~Parsable(a.Pct) THEN F[i - 1]
               ELSE Append(F[i - 1],
                           [ticker |-> Strip(a.Ticker), nome |-> NomeOf(a),
                            preco_atual |-> FloatOrZero(TextOrZero(a.PrecoAtual)),
                            variacao_pct |-> FloatValue(a.Pct), at |-> i,
                            k |-> FloatValue(a.Pct)])
    IN  F[Len(ativos)]

\* get_movers_latest(limit, direction)
get_movers_latest(d, by, limit, direction) ==
    { OverLatest(o, Take(IF direction = "down"
                         THEN SortAsc(MoverEntries(o.doc.xml_documento.ativos))
                         ELSE SortDesc(MoverEntries(o.doc.xml_documento.ativos)),
                         limit))
      : o \in get_latest_xml_document(d, by) }

-----------------------------------------------------------------------------
(* database.py: get_all_ativos_from_latest_xml (lines 211-310)             *)

\* xpath('//Ativo/@name', doc): the attribute nodes, of the Ativo elements
\* that carry the attribute, in document order
RECURSIVE AttrNodes(_, _)
AttrNodes(ativos, field) ==
    IF ativos = <<>> THEN <<>>
    ELSE (IF Head(ativos)[field] # Absent THEN <<Head(ativos)[field]>> ELSE <<>>)
         \o AttrNodes(Tail(ativos), field)

\* xpath('//Ativo/.../name/text()', doc): the text nodes; an element that
\* is absent or has no text has none
RECURSIVE TextNodes(_, _)
TextNodes(ativos, field) ==
    IF ativos = <<>> THEN <<>>
    ELSE (IF Head(ativos)[field] # Absent /\ Head(ativos)[field] # <<>>
          THEN <<Head(ativos)[field]>> ELSE <<>>)
         \o TextNodes(Tail(ativos), field)

\* (array[i])::text: NULL beyond the end of the array
ArrayAt(arr, i) == IF i \in DOMAIN arr THEN arr[i] ELSE NoneV

\* clean_value (lines 267-275)
clean_value(val) == IF val = NoneV \/ val = <<>> THEN <<>> ELSE CleanText(val)

\* the SELECT of lines 221-258: one row per index of the ticker array, every
\* column read at that index of its own array
AtivoRows(ativos) ==
    LET tickers      == AttrNodes(ativos, "Ticker")
        tipos        == AttrNodes(ativos, "Tipo")
        precos       == TextNodes(ativos, "PrecoAtual")
        volumes      == TextNodes(ativos, "Negociado")
        variacoes    == AttrNodes(ativos, "Pct")
        nomes        == TextNodes(ativos, "Nome")
        market_caps  == TextNodes(ativos, "MarketCap")
    IN  [i \in 1..Len(tickers) |->
            [ticker |-> tickers[i], tipo |-> ArrayAt(tipos, i),
             preco_atual |-> ArrayAt(precos, i), volume |-> ArrayAt(volumes, i),
             variacao_pct |-> ArrayAt(variacoes, i), nome |-> ArrayAt(nomes, i),
             market_cap |-> ArrayAt(market_caps, i)]]

\* lines 277-291
AtivoOfRow(row) ==
    [ticker |-> clean_value(row.ticker), tipo |-> clean_value(row.tipo),
     preco_atual |-> clean_value(row.preco_atual), volume |-> clean_value(row.volume),
     variacao_24h_pct |-> clean_value(row.variacao_pct), nome |-> clean_value(row.nome),
     market_cap |-> clean_value(row.market_cap)]

\* lines 265-296: the rows that have a ticker
RECURSIVE AtivosOfRows(_)
AtivosOfRows(rows) ==
    IF rows = <<>> THEN <<>>
    ELSE (IF AtivoOfRow(Head(rows)).ticker # <<>> THEN <<AtivoOfRow(Head(rows))>> ELSE <<>>)
         \o AtivosOfRows(Tail(rows))

\* lines 260-298 and the except branch: the statement over the row of the
\* latest document
AllAtivosOver(e) ==
    LET f == FetchAll(e.db)
        c == ConnCommit(f.db)
    IN  IF e.raised THEN [db |-> ConnRollback(e.db), raised |-> TRUE, out |-> <<>>]
        ELSE IF f.raised THEN [db |-> ConnRollback(f.db), raised |-> TRUE, out |-> <<>>]
        ELSE IF f.rows = <<>> THEN [db |-> c, raised |-> FALSE, out |-> <<>>]
        ELSE [db |-> c, raised |-> FALSE,
              out |-> AtivosOfRows(AtivoRows(f.rows[1].xml_documento.ativos))]

get_all_ativos_from_latest_xml(d, by) ==
    UNION { IF o.raised \/ o.doc = NoDoc
            THEN {[db |-> o.db, raised |-> o.raised, out |-> <<>>]}
            ELSE {AllAtivosOver(e) :
                    e \in ExecSelectById(_ensure_clean_transaction(o.db), by, o.doc.id)}
            : o \in get_latest_xml_document(d, by) }

-----------------------------------------------------------------------------
(* SpecStore: the read operations of Database, one call at a time, over a  *)
(* table that holds an older OK document, the latest OK document and a     *)
(* newer document of another status                                        *)

MaxStoreOps == 2
MaxAssets   == 2
MaxLimit    == 2

Asset(tk, tp, mc, pr, vol, pct) ==
    [Ticker |-> tk, Tipo |-> tp, Nome |-> <<"n">>, MarketCap |-> mc,
     PrecoAtual |-> pr, Negociado |-> vol, Pct |-> pct]

TipoS == <<"S">>
TipoB == <<"B">>
Dirty == <<"n", "/", "a">>

AssetA == Asset(<<"A">>, TipoS, <<"5", "0", "0">>, <<"5">>, <<"5">>, <<"5">>)
AssetB == Asset(<<"B">>, Absent, <<"1", "0", "0">>, Dirty, Absent, <<"-", "5">>)
AssetC == Asset(<<"C">>, TipoS, <<"9", "0", "0">>, <<"0", ".", "5">>, <<"5">>, Dirty)
AssetD == Asset(<<"D">>, <<>>, <<"5", "0", "0">>, Absent, Dirty, <<"5">>)
AssetE == Asset(<<>>, TipoS, <<"9", "0", "0">>, <<"5">>, <<"5">>, <<"5", "0">>)
AssetF == Asset(<<"F">>, TipoB, Dirty, <<"5">>, <<"5">>, Absent)
AssetG == Asset(<<APOS, APOS>>, TipoB, <<SPACE>>, <<"5">>, <<>>, <<"0">>)
AssetH == Asset(<<"H">>, TipoS, <<"2", "0", "0">>, <<"5">>, <<"5">>, <<"1", ".", "5">>)

\* an asset whose Nome element has no text
AssetI == [AssetA EXCEPT !.Ticker = <<"I">>, !.Nome = <<>>]

AssetPool == {AssetA, AssetB, AssetC, AssetD, AssetE, AssetF, AssetG, AssetH}

\* market caps 500, 100, 900; and 100, 200, not a number
Doc_500_100_900 == <<AssetA, AssetB, AssetC>>
Doc_100_200_NaN == <<AssetB, AssetH, AssetF>>
Doc_NoName      == <<AssetI, AssetH>>

StoreDocs == SeqsUpTo(AssetPool, MaxAssets) \cup {Doc_500_100_900, Doc_100_200_NaN, Doc_NoName}

OlderDoc == XmlOf(<<Asset(<<"Z">>, TipoS, <<"9", "0", "0", "0">>, <<"9">>, <<"9">>, <<"9">>)>>)
OtherDoc == XmlOf(<<Asset(<<"Y">>, TipoS, <<"7", "0", "0", "0">>, <<"7">>, <<"7">>, <<"7", "0">>)>>)

StoreOf(rows) == [DbInit EXCEPT !.store = rows, !.clock = 3, !.nextId = 4]

Stores ==
    { StoreOf({DocRow(1, OlderDoc, 1, 1, "r1", "OK"),
               DocRow(2, XmlOf(a), 2, 1, "r2", "OK"),
               DocRow(3, OtherDoc, 3, 1, "r3", "ERRO_VALIDACAO")}) : a \in StoreDocs }
    \cup { StoreOf({DocRow(3, OtherDoc, 3, 1, "r3", "ERRO_VALIDACAO")}), StoreOf({}) }

StoreInit ==
    /\ csvIdle
    /\ numIdle
    /\ callIdle
    /\ pc = <<>> /\ req = <<>> /\ loc = <<>>
    /\ db \in Stores
    /\ webhooks = {}
    /\ replies = {}
    /\ started = 0
    /\ opsLeft = MaxStoreOps

Call0 ==
    [op |-> "", seq |-> 0, q |-> "", func |-> <<>>, filters |-> NoFilters,
     limit |-> 0, tipo |-> NoneV, direction |-> "", rid |-> "",
     pre |-> DbInit, post |-> DbInit, raised |-> FALSE, out |-> <<>>]

\* the call that was made, the handle before and after it, and its outcome
StoreAnswer(call, o) ==
    /\ opsLeft > 0
    /\ db' = o.db
    /\ replies' = replies \cup
          {[call EXCEPT !.seq = started + 1, !.pre = db, !.post = o.db,
                        !.raised = o.raised, !.out = o.out]}
    /\ Count
    /\ UNCHANGED <<csvVars, numVars, callVars, pc, req, loc, webhooks>>

StoreQuery(q, f) ==
    \E o \in query_xpath(db, started + 1, q, f) :
       StoreAnswer([Call0 EXCEPT !.op = "query", !.q = q, !.filters = f],
              [db |-> o.db, raised |-> o.raised, out |-> o.results])

StoreAggregate(q, func) ==
    \E o \in {aggregate_xpath(db, started + 1, q, func)} :
       StoreAnswer([Call0 EXCEPT !.op = "aggregate", !.q = q, !.func = func], o)

StoreTopMarketCap(limit, tipo) ==
    \E o \in get_top_marketcap_latest(db, started + 1, limit, tipo) :
       StoreAnswer([Call0 EXCEPT !.op = "top", !.limit = limit, !.tipo = tipo], o)

StoreStats ==
    \E o \in get_stats_by_tipo_latest(db, started + 1) :
       StoreAnswer([Call0 EXCEPT !.op = "stats"], o)

StoreMovers(limit, direction) ==
    \E o \in get_movers_latest(db, started + 1, limit, direction) :
       StoreAnswer([Call0 EXCEPT !.op = "movers", !.limit = limit, !.direction = direction], o)

StoreAllAtivos ==
    \E o \in get_all_ativos_from_latest_xml(db, started + 1) :
       StoreAnswer([Call0 EXCEPT !.op = "ativos"], o)

StoreInsert(rid) ==
    \E o \in {insert_xml_document(db, started + 1, XmlOf(<<AssetA>>), 1, rid, "OK")} :
       StoreAnswer([Call0 EXCEPT !.op = "insert", !.rid = rid],
              [db |-> o.db, raised |-> o.raised, out |-> <<o.id>>])

StoreXPaths  == {XpTicker, XpMarketCapText, XpNoMatch, XpInvalid}
StoreFilters == {NoFilters, StatusFilter("OK")}
Limits       == 1..MaxLimit
TipoFilters  == {NoneV, TipoS}
Directions   == {"up", "down", "sideways"}

NextStore ==
    \/ \E q \in StoreXPaths, f \in StoreFilters : StoreQuery(q, f)
    \/ \E func \in AggregateFuncs : StoreAggregate(XpMarketCap, func)
    \/ \E limit \in Limits, tipo \in TipoFilters : StoreTopMarketCap(limit, tipo)
    \/ StoreStats
    \/ \E limit \in Limits, direction \in Directions : StoreMovers(limit, direction)
    \/ StoreInsert("r9")
    \/ StoreAllAtivos

SpecStore == StoreInit /\ [][NextStore]_vars

-----------------------------------------------------------------------------
(* SpecPath: the path normalisation of aggregate_xpath applied to the text *)
(* of every path of up to MaxSteps steps                                   *)

MaxSteps == 3

StepName      == <<"A">>
StepAttr      == <<AT, "T">>
StepText      == <<"t", "e", "x", "t", "(", ")">>
StepAttrPred  == <<"A", "[", AT, "T", "]">>
StepChildPred == <<"A", "[", "B", SLASH, "C", "]">>
StepPathPred  == <<"A", "[", "B", SLASH, AT, "T", "]">>

Steps == {StepName, StepAttr, StepText, StepAttrPred, StepChildPred, StepPathPred}

\* the steps joined by '/'
RECURSIVE JoinSteps(_)
JoinSteps(steps) ==
    IF Len(steps) = 1 THEN Head(steps)
    ELSE Head(steps) \o <<SLASH>> \o JoinSteps(Tail(steps))

\* the text of a path: '/' or '//', the steps, and blanks around it or not
PathText(p) == p.pad \o p.lead \o JoinSteps(p.steps) \o p.pad

Paths ==
    [lead  : {<<SLASH>>, <<SLASH, SLASH>>},
     steps : SeqsUpTo(Steps, MaxSteps) \ {<<>>},
     pad   : {<<>>, <<SPACE>>}]

PathInit ==
    /\ callArg \in Paths
    /\ callPhase = "input"
    /\ callOut = <<>>
    /\ csvIdle
    /\ numIdle
    /\ svcIdle

PathNormalize ==
    /\ callPhase = "input"
    /\ callPhase' = "done"
    /\ callOut' = normalized_query(PathText(callArg))
    /\ UNCHANGED <<callArg, csvVars, numVars, svcVars>>

PathNext == PathNormalize

SpecPath == PathInit /\ [][PathNext]_vars

-----------------------------------------------------------------------------
(* SpecValidate: validate_xml applied to one text, with every outcome of   *)
(* the schema file                                                         *)

MaxAtivoChildren == 1

\* the texts handed to validate_xml: empty, not well-formed, and well-formed
\* with any root, root attributes, children and Ativo children
XmlInputs ==
    {EmptyContent, NoXml} \cup
    [wellFormed : {TRUE},
     root       : {"RelatorioConformidade", "Relatorio"},
     attrs      : SUBSET {"DataGeracao", "Versao"},
     children   : SUBSET {"Configuracao", "Ativos"},
     ativos     : SeqsUpTo({"Ativo"}, MaxAtivoChildren)]

ValidateInit ==
    /\ callArg \in [xml : XmlInputs, xsd : XsdOutcomes]
    /\ callPhase = "input"
    /\ callOut = <<>>
    /\ csvIdle
    /\ numIdle
    /\ svcIdle

ValidateCall ==
    /\ callPhase = "input"
    /\ callPhase' = "done"
    /\ callOut' = validate_xml(callArg.xml, callArg.xsd)
    /\ UNCHANGED <<callArg, csvVars, numVars, svcVars>>

ValidateNext == ValidateCall

SpecValidate == ValidateInit /\ [][ValidateNext]_vars

-----------------------------------------------------------------------------
(* SpecFrame: every operation of Database on a table that holds documents, *)
(* one call at a time, aggregate_xpath with any text as aggregate_func     *)
(* (main.py lines 315-317 and grpc_server.py lines 84-89 pass the text of  *)
(* the request on as it is)                                                *)

MaxFrameOps == 2

FuncMedian       == <<"median">>
FuncDelete       == <<"1", SEMI>> \o SqlDeleteAll \o <<SEMI, "SELECT", "count">>
FuncDeleteCommit == <<"1", SEMI>> \o SqlDeleteAll \o <<SEMI>> \o SqlCommit
                       \o <<SEMI, "SELECT", "count">>
FuncUpdateCommit == <<"1", SEMI>> \o SqlUpdateStatus \o <<SEMI>> \o SqlCommit
                       \o <<SEMI, "SELECT", "count">>
FuncUnfinished   == <<"1", SEMI>> \o SqlDeleteAll \o <<SEMI>> \o SqlCommit \o <<SEMI>>

FuncTexts == AggregateFuncs \cup {FuncMedian, FuncDelete, FuncDeleteCommit,
                                  FuncUpdateCommit, FuncUnfinished}

FrameStores ==
    { StoreOf({DocRow(1, OlderDoc, 1, 1, "r1", "OK"),
               DocRow(2, XmlOf(a), 2, 1, "r2", "OK"),
               DocRow(3, OtherDoc, 3, 1, "r3", "ERRO_VALIDACAO")})
      : a \in {Doc_500_100_900, Doc_100_200_NaN} }

FrameInit ==
    /\ csvIdle
    /\ numIdle
    /\ callIdle
    /\ pc = <<>> /\ req = <<>> /\ loc = <<>>
    /\ db \in FrameStores
    /\ webhooks = {}
    /\ replies = {}
    /\ started = 0
    /\ opsLeft = MaxFrameOps

StoreGetById(id) ==
    \E o \in get_xml_document_by_id(db, started + 1, id) :
       StoreAnswer([Call0 EXCEPT !.op = "by_id", !.limit = id],
              [db |-> o.db, raised |-> o.raised, out |-> <<o.doc>>])

StoreGetLatest ==
    \E o \in get_latest_xml_document(db, started + 1) :
       StoreAnswer([Call0 EXCEPT !.op = "latest"],
              [db |-> o.db, raised |-> o.raised, out |-> <<o.doc>>])

NextFrame ==
    \/ \E rid \in {"r2", "r9"} : StoreInsert(rid)
    \/ \E id \in 1..4 : StoreGetById(id)
    \/ StoreGetLatest
    \/ \E q \in StoreXPaths, f \in StoreFilters : StoreQuery(q, f)
    \/ \E q \in {XpMarketCap, XpTicker, XpInvalid}, func \in FuncTexts : StoreAggregate(q, func)
    \/ \E limit \in Limits, tipo \in TipoFilters : StoreTopMarketCap(limit, tipo)
    \/ StoreStats
    \/ \E limit \in Limits, direction \in Directions : StoreMovers(limit, direction)

SpecFrame == FrameInit /\ [][NextFrame]_vars

-----------------------------------------------------------------------------
(* Properties                                                              *)

\* the automaton of csv.reader after the whole text
RECURSIVE ReaderEnd(_, _, _)
ReaderEnd(io, i, st) ==
    IF i > Len(io) THEN st
    ELSE LET st1 == parse_process_char(FeedChars(st, io[i], 1), EOL)
         IN  ReaderEnd(io, i + 1, IF st1.state = "START_RECORD" THEN ReaderReset ELSE st1)

\* number of non-blank lines after the header line
DataLineCount(content) == Len(NonEmptyLines(content)) - 1

\* tabular input taken as well-formed: a mapper, a non-blank header line
\* first, at least one non-blank data line, no line of spaces only, and every
\* quoted field closed
WellFormedInput(content, mapper) ==
    /\ DOMAIN mapper # {}
    /\ Strip(content[1]) # <<>>
    /\ DataLineCount(content) >= 1
    /\ \A i \in DOMAIN content : content[i] = <<>> \/ Strip(content[i]) # <<>>
    /\ ReaderEnd(StringIOLines(content), 1, ReaderReset).state # "IN_QUOTED_FIELD"

\* C1: for well-formed input with N non-blank data lines,
\* generate_xml_from_csv succeeds with exactly N Ativo elements, in input
\* order (each from a later line than the one before), also when the
\* recovery parser decoded part of them.
C1_ExactlyNAssets ==
    (csvPhase = "done" /\ WellFormedInput(csvContent, csvMapper)) =>
        /\ csvResult.ok
        /\ Len(csvResult.ativos) = DataLineCount(csvContent)
        /\ \A i, j \in DOMAIN csvResult.ativos :
              i < j => csvResult.ativos[i].at < csvResult.ativos[j].at

\* a well-formed input on which the recovery parser ran
C1_RecoveryRan ==
    /\ csvPhase = "done"
    /\ WellFormedInput(csvContent, csvMapper)
    /\ RecoveryRan(csvContent)
    /\ csvResult.ok

PostsOf(u) == {p \in webhooks : p.unit = u}

InFlight(u) == \E t \in Threads : req[t].opId = u

InsertPcs == {"ins_exec", "ins_fetch", "ins_commit", "ins_rollback"}

\* C2: a document that validate_xml turns down is never handed to the
\* store: no thread is inside insert_xml_document with an invalid document,
\* the unit's notification is ERRO_VALIDACAO without a document id, and no
\* row, committed or pending, comes from that unit.
C2_InvalidNeverPersisted ==
    /\ \A t \in Threads : pc[t] \in InsertPcs => loc[t].is_valid = "valid"
    /\ \A p \in webhooks :
          p.is_valid = "invalid" =>
             /\ p.status = "ERRO_VALIDACAO"
             /\ p.docId = 0
             /\ \A row \in Visible(db) : row.src # p.unit

\* a unit was turned down by validation while the store holds a document
\* of the same requestId from another unit
C2_Witness ==
    \E p \in webhooks :
       /\ p.is_valid = "invalid"
       /\ \E row \in db.store : row.request_id = p.rid

\* C3 (safety part): every unit of work that was started has attempted no
\* notification while it runs and exactly one, its first, with one of the
\* three outcomes and its own requestId, once it has ended; no notification
\* exists without a started unit.
C3_ExactlyOne ==
    /\ \A r \in replies :
          r.unit =>
             IF InFlight(r.opId) THEN PostsOf(r.opId) = {}
             ELSE /\ Cardinality(PostsOf(r.opId)) = 1
                  /\ \A p \in PostsOf(r.opId) :
                        /\ p.n = 1
                        /\ p.rid = r.rid
                        /\ p.status \in {"OK", "ERRO_VALIDACAO", "ERRO_PERSISTENCIA"}
    /\ \A p \in webhooks : \E r \in replies : r.unit /\ r.opId = p.unit

\* C3: once started, a unit of work runs to completion and attempts exactly
\* one notification on every path, whether or not the transport delivers.
C3_OneNotification ==
    /\ []C3_ExactlyOne
    /\ \A t \in Threads : (pc[t] # "idle") ~> (pc[t] = "idle")

\* every outcome was notified once with the transport failing
C3_Witness ==
    /\ \E p \in webhooks : p.status = "ERRO_PERSISTENCIA" /\ ~p.delivered
    /\ \E p \in webhooks : p.status = "OK" /\ ~p.delivered

\* C4: a request notified OK has its document committed under the notified
\* id, and a request notified ERRO_PERSISTENCIA has left no document in the
\* store, under every interleaving on the shared handle.
C4_PerRequestAtomicity ==
    \A p \in webhooks :
       /\ p.status = "OK" =>
             \E row \in db.store : row.id = p.docId /\ row.request_id = p.rid
       /\ p.status = "ERRO_PERSISTENCIA" =>
             \A row \in db.store : row.src # p.unit

ReadOps == {"get_latest", "get_by_id", "query"}

\* C5: a read that returned normally got the rows of the statement it
\* executed itself.
C5_OwnRows ==
    \A r \in replies :
       (r.op \in ReadOps /\ r.code \in {200, 404}) => r.by = r.opId

\* the units of requestId rid that went as far as the insert
Inserters(rid) ==
    {p \in webhooks : p.rid = rid /\ p.status \in {"OK", "ERRO_PERSISTENCIA"}}

\* C6: the store holds at most one document per requestId, and once the
\* units submitted with one requestId have ended, exactly one of them was
\* notified OK, the others ERRO_PERSISTENCIA, and one document of that
\* requestId is stored.
C6_OnePerRequestId ==
    /\ \A a, b \in db.store : a.request_id = b.request_id => a = b
    /\ \A rid \in RequestIds :
          (Inserters(rid) # {} /\ \A t \in Threads : req[t].rid # rid) =>
             /\ Cardinality({p \in Inserters(rid) : p.status = "OK"}) = 1
             /\ \E row \in db.store : row.request_id = rid

UploadReplies == {r \in replies : r.op = "upload"}

LatestReplies == {r \in replies : r.op = "get_latest" /\ r.code \in {200, 404}}

\* C8: getLatestDocument answers "no document" exactly when its statement
\* saw no document with status OK, and otherwise answers an OK document of
\* the greatest creation time among those it saw.
C8_LatestIsNewestOk ==
    \A r \in LatestReplies :
       /\ r.code = 404 <=> r.seen = {}
       /\ r.code = 200 => r.doc \in Newest(r.seen)

\* C9: two getLatestDocument calls, each run with no other operation in
\* progress, and with no insert from the beginning of the first to the end
\* of the second, give the same answer.
C9_LatestIdempotent ==
    \A r1, r2 \in LatestReplies :
       (r1.alone /\ r2.alone /\ r1.opId < r2.opId /\ r1.e0 = r2.e1) =>
          r1.code = r2.code /\ r1.doc = r2.doc

QueryReplies == {r \in replies : r.op = "query" /\ r.code = 200}

\* the documents among S that have a match of q to show
Matching(q, S) ==
    {d \in S : \E i \in DOMAIN XPathEval(q, d.xml_documento) :
                  XPathEval(q, d.xml_documento)[i] # <<>>}

\* the answer holds the matches of exactly the OK documents the statement
\* saw, newest first
OnlyOkNewestFirst(r) ==
    /\ {x.id : x \in Range(r.results)} =
          {d.id : d \in Matching(r.xpath, {d \in r.seen : d.status = "OK"})}
    /\ \A i, j \in DOMAIN r.results :
          (i < j /\ r.results[i].id # r.results[j].id) =>
             r.results[i].data_criacao > r.results[j].data_criacao

-----------------------------------------------------------------------------
(* Properties of the store reads (SpecStore)                               *)

Calls(op) == {r \in replies : r.op = op}

\* the rows the statement of a call read
RowsSeen(r) == Visible(r.pre)

\* the OK documents of the greatest creation time a call could read
LatestOk(r) == Newest({d \in RowsSeen(r) : d.status = "OK"})

\* the matched nodes of a document that carry some text, in document order
TextMatches(q, d) == SelectSeq(XPathEval(q, d.xml_documento), LAMBDA t : t # <<>>)

\* C11: pathQuery gives one result for every matched node of every document
\* of the filtered set, each with the document's id, requestId and creation
\* time; the results are ordered newest document first and in document
\* order within a document; a path that matches nothing gives the empty
\* list, not an error.
C11_Flattening ==
    \A r \in Calls("query") :
       r.q # XpInvalid =>
          /\ ~r.raised
          /\ \A d \in FilterRows(RowsSeen(r), r.filters) :
                LET m == TextMatches(r.q, d)
                    mine == SelectSeq(r.out, LAMBDA x : x.id = d.id)
                IN  /\ Len(mine) = Len(m)
                    /\ \A i \in DOMAIN mine :
                          /\ mine[i].result = CleanText(m[i])
                          /\ mine[i].request_id = d.request_id
                          /\ mine[i].data_criacao = d.data_criacao
          /\ \A i \in DOMAIN r.out :
                \E d \in FilterRows(RowsSeen(r), r.filters) : r.out[i].id = d.id
          /\ \A i, j \in DOMAIN r.out :
                i < j => r.out[i].data_criacao >= r.out[j].data_criacao

\* a query answered with two results of one document and with results of
\* another document, and a query that matched nothing
C11_Witness ==
    /\ \E r \in Calls("query") :
          /\ ~r.raised
          /\ \E i, j \in DOMAIN r.out :
                i < j /\ r.out[i].id = r.out[j].id /\ r.out[i].result # r.out[j].result
          /\ \E i, j \in DOMAIN r.out : r.out[i].id # r.out[j].id
    /\ \E r \in Calls("query") : r.q = XpNoMatch /\ ~r.raised /\ r.out = <<>>

\* C12: every result of pathQuery has non-empty text after cleaning; a match
\* whose text is empty once stripped and unquoted is dropped.
C12_NoEmptyResult ==
    \A r \in Calls("query") :
       ~r.raised => \A i \in DOMAIN r.out : r.out[i].result # <<>>

\* text that PostgreSQL casts to numeric
NumericText(t) == FloatOf(t).kind \in {"finite", "zero"}

RECURSIVE ValuesOf(_)
ValuesOf(texts) ==
    IF texts = <<>> THEN <<>> ELSE <<FloatValue(Head(texts))>> \o ValuesOf(Tail(texts))

\* func over the values (in hundredths), as a fraction; NULL counts as 0
AggregateOf(func, vals) ==
    IF func = <<"count">> THEN [num |-> 100 * Len(vals), den |-> 1]
    ELSE IF vals = <<>> THEN [num |-> 0, den |-> 1]
    ELSE IF func = <<"sum">> THEN [num |-> Sum(vals), den |-> 1]
    ELSE IF func = <<"avg">> THEN [num |-> Sum(vals), den |-> Len(vals)]
    ELSE IF func = <<"min">>
    THEN [num |-> CHOOSE v \in Range(vals) : \A w \in Range(vals) : v <= w, den |-> 1]
    ELSE [num |-> CHOOSE v \in Range(vals) : \A w \in Range(vals) : v >= w, den |-> 1]

\* C13: aggregate(pathExpr, func) equals func applied to the numeric matches
\* of pathExpr in the OK document of the greatest creation time, and to
\* nothing else.
C13_AggregateOverLatestOk ==
    \A r \in Calls("aggregate") :
       \A d \in LatestOk(r) :
          LET texts == XPathEval(NormalizedXPath(r.q), d.xml_documento) IN
          (\A i \in DOMAIN texts : NumericText(texts[i])) =>
             /\ ~r.raised
             /\ NumericText(r.out)
             /\ FloatValue(r.out) * AggregateOf(r.func, ValuesOf(texts)).den
                   = AggregateOf(r.func, ValuesOf(texts)).num

\* what a call gives on a handle d: whether it raises, and its result
OutcomesOn(c, d) ==
    IF c.op = "query"
    THEN {[raised |-> o.raised, out |-> o.results] : o \in query_xpath(d, c.seq, c.q, c.filters)}
    ELSE IF c.op = "aggregate"
    THEN {[raised |-> o.raised, out |-> o.out] : o \in {aggregate_xpath(d, c.seq, c.q, c.func)}}
    ELSE IF c.op = "top"
    THEN {[raised |-> o.raised, out |-> o.out] :
             o \in get_top_marketcap_latest(d, c.seq, c.limit, c.tipo)}
    ELSE IF c.op = "stats"
    THEN {[raised |-> o.raised, out |-> o.out] : o \in get_stats_by_tipo_latest(d, c.seq)}
    ELSE IF c.op = "movers"
    THEN {[raised |-> o.raised, out |-> o.out] :
             o \in get_movers_latest(d, c.seq, c.limit, c.direction)}
    ELSE IF c.op = "ativos"
    THEN {[raised |-> o.raised, out |-> o.out] : o \in get_all_ativos_from_latest_xml(d, c.seq)}
    ELSE {[raised |-> o.raised, out |-> <<o.id>>] :
             o \in {insert_xml_document(d, c.seq, XmlOf(<<AssetA>>), 1, c.rid, "OK")}}

\* some match of the path in the latest OK document is not numeric
HasDirtyMatch(r) ==
    \E d \in LatestOk(r) :
       \E i \in DOMAIN XPathEval(NormalizedXPath(r.q), d.xml_documento) :
          ~NumericText(XPathEval(NormalizedXPath(r.q), d.xml_documento)[i])

\* C14: when a match is not numeric, aggregate returns "0" and raises
\* nothing, and the next call on the handle gives what it would have given
\* had the aggregate not been made.
C14_SwallowedFailure ==
    \A r \in Calls("aggregate") :
       HasDirtyMatch(r) =>
          /\ r.out = <<ZERO>>
          /\ ~r.raised
          /\ \A n \in replies :
                n.seq = r.seq + 1 =>
                   [raised |-> n.raised, out |-> n.out] \in OutcomesOn(n, r.pre)

\* sum over market caps 100, 200 and a text that is no number, followed by
\* an insert that succeeds
C14_Witness ==
    \E r \in Calls("aggregate"), n \in Calls("insert") :
       /\ r.func = <<"sum">> /\ HasDirtyMatch(r)
       /\ \E d \in LatestOk(r) : d.xml_documento.ativos = Doc_100_200_NaN
       /\ n.seq = r.seq + 1 /\ ~n.raised

\* the assets of a document that topByMarketCap may return: a ticker, a
\* market cap that is a number, and the type asked for when one is given
Eligible(ativos, tipo) ==
    {i \in DOMAIN ativos :
        /\ Strip(ativos[i].Ticker) # <<>>
        /\ ativos[i].MarketCap # Absent /\ Parsable(ativos[i].MarketCap)
        /\ Strip(ativos[i].MarketCap) # <<>>
        /\ tipo \in {NoneV, <<>>} \/ TipoOf(ativos[i]) = tipo}

Min2(a, b) == IF a < b THEN a ELSE b

Contributing(ativos, tipo, field) ==
    {i \in DOMAIN ativos :
        /\ TipoOf(ativos[i]) = tipo
        /\ ativos[i][field] # Absent
        /\ Parsable(ativos[i][field])}

RECURSIVE TotalOver(_, _, _)
TotalOver(S, ativos, field) ==
    IF S = {} THEN 0
    ELSE LET i == CHOOSE j \in S : TRUE
         IN  FloatValue(ativos[i][field]) + TotalOver(S \ {i}, ativos, field)

\* a mean given as a fraction is the mean of the field over S, 0 for no value
IsMeanOver(m, S, ativos, field) ==
    IF S = {} THEN m.num = 0
    ELSE m.num * Cardinality(S) = TotalOver(S, ativos, field) * m.den

\* C16: groupedStats returns one entry per distinct type ("Cryptocurrency"
\* for an absent or empty type), with the number of assets of the type, the
\* mean price, total volume and mean change over the assets of the type
\* whose value parses, 0.0 for a metric nothing contributes to; entries are
\* ordered by count descending and the counts sum to the number of assets.
C16_GroupedStats ==
    \A r \in Calls("stats") :
       /\ ~r.raised
       /\ \A d \in LatestOk(r) :
             LET ativos == d.xml_documento.ativos
                 tipos  == {TipoOf(ativos[i]) : i \in DOMAIN ativos}
             IN  /\ Len(r.out) = Cardinality(tipos)
                 /\ {r.out[g].tipo : g \in DOMAIN r.out} = tipos
                 /\ \A g \in DOMAIN r.out :
                       LET e == r.out[g] IN
                       /\ e.total_ativos =
                             Cardinality({i \in DOMAIN ativos : TipoOf(ativos[i]) = e.tipo})
                       /\ IsMeanOver(e.avg_preco,
                                     Contributing(ativos, e.tipo, "PrecoAtual"),
                                     ativos, "PrecoAtual")
                       /\ e.total_volume =
                             TotalOver(Contributing(ativos, e.tipo, "Negociado"),
                                       ativos, "Negociado")
                       /\ IsMeanOver(e.avg_variacao_pct,
                                     Contributing(ativos, e.tipo, "Pct"), ativos, "Pct")
                 /\ \A g, h \in DOMAIN r.out :
                       g < h => r.out[g].total_ativos >= r.out[h].total_ativos
                 /\ Sum([g \in DOMAIN r.out |-> r.out[g].total_ativos]) = Len(ativos)

\* statistics over a document with two types, one of them the default
\* label, with a price that does not parse and a group whose volume has no
\* contributing value
C16_Witness ==
    \E r \in Calls("stats") :
       /\ ~r.raised /\ Len(r.out) = 2
       /\ \E g \in DOMAIN r.out : r.out[g].tipo = DefaultTipo
       /\ \E d \in LatestOk(r) :
             LET ativos == d.xml_documento.ativos IN
             /\ \E i \in DOMAIN ativos :
                   ativos[i].PrecoAtual # Absent /\ ~Parsable(ativos[i].PrecoAtual)
             /\ \E g \in DOMAIN r.out :
                   /\ Contributing(ativos, r.out[g].tipo, "Negociado") = {}
                   /\ r.out[g].total_volume = 0
             /\ \E g \in DOMAIN r.out :
                   Contributing(ativos, r.out[g].tipo, "PrecoAtual") # {}

\* the assets movers may return: a ticker and a change that is a number
Moving(ativos) ==
    {i \in DOMAIN ativos :
        /\ Strip(ativos[i].Ticker) # <<>>
        /\ ativos[i].Pct # Absent /\ Parsable(ativos[i].Pct)}

\* C17: movers(limit, direction) returns at most limit assets, each with a
\* ticker and a numeric change, sorted by change descending for up and
\* ascending for down; an asset whose change does not parse is left out, one
\* whose price does not parse is kept with price 0.0.
C17_Movers ==
    \A r \in Calls("movers") :
       r.direction \in {"up", "down"} =>
          /\ ~r.raised
          /\ \A d \in LatestOk(r) :
                LET ativos == d.xml_documento.ativos
                    M      == Moving(ativos)
                IN  /\ Len(r.out) = Min2(r.limit, Cardinality(M))
                    /\ \A i \in DOMAIN r.out :
                          LET a == ativos[r.out[i].at] IN
                          /\ r.out[i].at \in M
                          /\ r.out[i].ticker # <<>>
                          /\ r.out[i].variacao_pct = FloatValue(a.Pct)
                          /\ (a.PrecoAtual # Absent /\ ~Parsable(a.PrecoAtual)) =>
                                r.out[i].preco_atual = 0
                    /\ \A i, j \in DOMAIN r.out :
                          i < j =>
                             IF r.direction = "up"
                             THEN r.out[i].variacao_pct >= r.out[j].variacao_pct
                             ELSE r.out[i].variacao_pct <= r.out[j].variacao_pct
                    /\ \A e \in M :
                          (\A i \in DOMAIN r.out : r.out[i].at # e) =>
                             \A i \in DOMAIN r.out :
                                IF r.direction = "up"
                                THEN r.out[i].variacao_pct >= FloatValue(ativos[e].Pct)
                                ELSE r.out[i].variacao_pct <= FloatValue(ativos[e].Pct)

\* movers over a document with an asset whose price does not parse, which
\* is returned with price 0.0, and an asset whose change does not parse,
\* which is not
C17_Witness ==
    \E r \in Calls("movers") :
       /\ r.direction = "down" /\ ~r.raised
       /\ \E d \in LatestOk(r) :
             LET ativos == d.xml_documento.ativos IN
             /\ \E i \in DOMAIN ativos :
                   /\ Strip(ativos[i].Ticker) # <<>>
                   /\ ativos[i].Pct # Absent /\ ~Parsable(ativos[i].Pct)
             /\ \E i \in DOMAIN r.out :
                   /\ ativos[r.out[i].at].PrecoAtual # Absent
                   /\ ~Parsable(ativos[r.out[i].at].PrecoAtual)
                   /\ r.out[i].preco_atual = 0

-----------------------------------------------------------------------------
(* Properties of the numeric normalisers (SpecNum)                         *)

T_12a3b4 == <<"1", "2", "a", "-", "3", "b", "4">>
T_233e7  == <<"2", ".", "3", "3", "-", "7">>
T_abc    == <<"a", "b", "c">>
T_m55    == <<"-", "5", ".", "5">>

NumDone == numPhase = "done"

\* C18 as stated: safe_integer('12a-3b4') is '12' and safe_integer('') is '0'.
C18_FirstRunOnly ==
    NumDone =>
       /\ numRaw = T_12a3b4 => numInt = <<"1", "2">>
       /\ numRaw = <<>> => numInt = <<ZERO>>

\* C18, amended: safe_integer('12a-3b4') is '1234' and safe_integer('') is
\* '0'; in general every digit of the raw text is kept, in order, and a
\* minus is kept only as the first kept character.
C18_EveryDigitKept ==
    NumDone =>
       /\ numRaw = T_12a3b4 => numInt = <<"1", "2", "3", "4">>
       /\ numRaw = <<>> => numInt = <<ZERO>>
       /\ OnlyDigits(numRaw) # <<>> => OnlyDigits(numInt) = OnlyDigits(numRaw)
       /\ \A i \in DOMAIN numInt : numInt[i] = MINUS => i = 1

C18_Witness == NumDone /\ numRaw = T_12a3b4 /\ Len(numInt) = 4

\* optional minus, at least one digit
IsIntegerText(t) ==
    LET d == IF t # <<>> /\ Head(t) = MINUS THEN Tail(t) ELSE t
    IN  d # <<>> /\ AllDigits(d)

\* optional minus, at least one digit, optionally a point and at least one
\* more digit
IsDecimalText(t) ==
    LET d == IF t # <<>> /\ Head(t) = MINUS THEN Tail(t) ELSE t
        k == RunEnd(d, 1)
    IN  /\ k > 1
        /\ \/ k = Len(d) + 1
           \/ /\ d[k] = DOT
              /\ k < Len(d)
              /\ AllDigits(SubSeq(d, k + 1, Len(d)))

\* C19: for every raw text, safe_integer returns the default or an optional
\* minus followed by at least one digit (the default when nothing but a
\* sign remains), and safe_decimal returns the default or plain decimal
\* text, so that the text written to the document is always valid numeric
\* text.
C19_ValidNumericText ==
    NumDone =>
       /\ numInt = DefaultNumber \/ IsIntegerText(numInt)
       /\ numDec = DefaultNumber \/ IsDecimalText(numDec)

\* the value safe_decimal converts: that of the stripped and repaired text,
\* or of its cleaned characters where the text itself is not a number
ConvertedValue(raw) ==
    LET fixed == Repaired(Strip(raw))
        x     == PyFloat(fixed)
    IN  IF x.kind # "error" THEN x
        ELSE PyFloat(SelectSeq(fixed,
                 LAMBDA c : IsDigit(c) \/ c \in {DOT, MINUS, PLUS, "e", "E"}))

\* no zero is left at the end of a fraction, and no point at the end
IsTrimmed(t) ==
    /\ t # <<>> => t[Len(t)] # DOT
    /\ (\E i \in DOMAIN t : t[i] = DOT) => t[Len(t)] # ZERO

\* C20: safe_decimal('2.33-7') is 0.000000233, safe_decimal('abc') is '0',
\* safe_decimal('-5.5') is '-5.5'; for every raw text the result is plain
\* decimal text with no trailing zeros and no trailing point, and a zero
\* value gives the literal '0'.
C20_PlainDecimalZeroLiteral ==
    NumDone =>
       /\ numRaw = T_233e7 =>
             numDec = <<"0", ".", "0", "0", "0", "0", "0", "0", "2", "3", "3">>
       /\ numRaw = T_abc => numDec = <<ZERO>>
       /\ numRaw = T_m55 => numDec = T_m55
       /\ IsDecimalText(numDec) /\ IsTrimmed(numDec)
       /\ (Strip(numRaw) # <<>> /\ ConvertedValue(numRaw).kind = "zero") =>
             numDec = <<ZERO>>


-----------------------------------------------------------------------------
(* Properties of the table over all operations (SpecFrame)                 *)

\* C21: a committed document is never changed and never removed: whatever
\* operation runs next, every row of the table is still in it with the same
\* content, id, creation time, mapper version, request id and status.
C21_NeverMutated == [][\A r \in db.store : r \in db'.store]_vars

-----------------------------------------------------------------------------
(* Properties of concurrent requests on the one handle (Spec, SpecWrite)   *)

\* the only submission of its requestId
OnlyOfItsId(p) == \A r \in UploadReplies : r.opId # p.unit => r.rid # p.rid

\* C22: a failure stays within the request it belongs to: a submission with
\* valid content whose requestId no other submission carries ends with
\* status OK and its document stored, whatever other requests fail before
\* it or while it runs.
C22_FailureIsolated ==
    \A p \in webhooks :
       (p.is_valid = "valid" /\ OnlyOfItsId(p)) =>
          /\ p.status = "OK"
          /\ \E row \in db.store : row.request_id = p.rid /\ row.src = p.unit

\* C27: under every interleaving of write units on the shared handle, a
\* notification with status OK carries the id of the stored document of its
\* own requestId, which is the document its own insert made, and a unit
\* whose document is committed is not notified ERRO_PERSISTENCIA.
C27_OwnDocumentId ==
    \A p \in webhooks :
       /\ p.status = "OK" =>
             /\ \E row \in db.store : row.id = p.docId /\ row.request_id = p.rid
             /\ \A row \in db.store : row.id = p.docId => row.src = p.unit
       /\ p.status = "ERRO_PERSISTENCIA" =>
             \A row \in db.store : row.src # p.unit

\* the unit that made a row got "valid" from validate_xml
MadeByValidUnit(row) ==
    \/ \E t \in Threads : req[t].opId = row.src /\ loc[t].is_valid = "valid"
    \/ \E p \in webhooks : p.unit = row.src /\ p.is_valid = "valid"

\* C28: every document of the store, committed or not, has status OK and
\* was validated before its insert; a path query filtered on a status other
\* than OK therefore returns the empty list.
C28_OnlyOkStored ==
    /\ \A row \in Visible(db) : row.status = "OK" /\ MadeByValidUnit(row)
    /\ \A r \in QueryReplies : r.status \notin {"", "OK"} => r.results = <<>>

\* C29: on the socket transport the answer agrees with what happens to the
\* submission: one answered accepted=false is never processed (no unit of
\* work, no row, no notification), and one for which a unit of work was
\* started is answered accepted=true, also when sending the acknowledgment
\* fails.
C29_AnswerAgrees ==
    \A r \in UploadReplies :
       r.via = "socket" =>
          /\ ~r.accepted =>
                /\ ~r.unit
                /\ ~InFlight(r.opId)
                /\ PostsOf(r.opId) = {}
                /\ \A row \in Visible(db) : row.src # r.opId
          /\ r.unit => r.accepted

-----------------------------------------------------------------------------
(* Properties of the path normalisation (SpecPath)                         *)

LastStep(p) == p.steps[Len(p.steps)]

\* C23: aggregate appends '/text()' to the path exactly when its last step
\* is neither text() nor an attribute selector; a last step that is an
\* element with a predicate on an attribute gets the suffix, and a path
\* ending in /@Attr or /text() is left as it is.
C23_SuffixForElementPaths ==
    callPhase = "done" =>
       callOut = IF LastStep(callArg) \in {StepText, StepAttr}
                 THEN Strip(PathText(callArg))
                 ELSE Strip(PathText(callArg)) \o TextSuffix

-----------------------------------------------------------------------------
(* Properties of validate_xml (SpecValidate)                               *)

\* the first item the basic check misses, in its order; "" when none
FirstMissing(xml) ==
    IF xml.root # "RelatorioConformidade" THEN "root"
    ELSE IF "DataGeracao" \notin xml.attrs THEN "DataGeracao"
    ELSE IF "Versao" \notin xml.attrs THEN "Versao"
    ELSE IF "Configuracao" \notin xml.children THEN "Configuracao"
    ELSE IF "Ativos" \notin xml.children THEN "Ativos"
    ELSE IF Len(xml.ativos) < 1 THEN "Ativo"
    ELSE ""

\* C25: validate never raises and answers (valid, no error) or (invalid, an
\* error message); a text that is not well-formed is turned down for that
\* before any other check; with no schema file, a well-formed document is
\* valid exactly when it has the root RelatorioConformidade with DataGeracao
\* and Versao, the children Configuracao and Ativos and at least one Ativo,
\* and the error names the first of these that is missing.
C25_BinaryValidation ==
    callPhase = "done" =>
       /\ ~callOut.raised
       /\ callOut.valid \in BOOLEAN
       /\ callOut.valid <=> callOut.error = ""
       /\ callArg.xml = NoXml => ~callOut.valid /\ callOut.error = "syntax"
       /\ (callArg.xml.wellFormed /\ callArg.xsd = "absent") =>
             callOut.error = FirstMissing(callArg.xml)

\* with no schema file, a document that lacks Versao and has no Ativo is
\* turned down for Versao; or the schema file cannot be loaded and the
\* document is turned down
C25_Witness ==
    /\ callPhase = "done"
    /\ \/ /\ callArg.xsd = "absent" /\ callArg.xml.wellFormed
          /\ callArg.xml.attrs = {"DataGeracao"} /\ callArg.xml.ativos = <<>>
          /\ callOut.error = "Versao"
       \/ /\ callArg.xsd = "unreadable" /\ callArg.xml.wellFormed
          /\ ~callOut.valid

-----------------------------------------------------------------------------
(* Properties of the recovery parser (SpecCsv)                             *)

\* the lines the recovery parser is to read: the non-blank lines numbered
\* above the rows of csv.DictReader, the header being line 1
UnparsedTail(content) ==
    LET nonEmpty == NonEmptyLines(content)
    IN  {nonEmpty[k] : k \in {j \in DOMAIN nonEmpty : j > Len(DictReader(content)) + 1}}

RecoveredRows(content) ==
    LET rows == ParseRows(content)
    IN  {i \in DOMAIN rows : rows[i].via \in {"recovery", "degraded"}}

\* C26: when csv.DictReader yields fewer rows than there are non-blank data
\* lines, the recovery parser makes rows of the lines of the unparsed tail
\* only, and makes one row of every line of the tail, also of a line with
\* fewer values than the header has fields.
C26_EveryTailLineRecovered ==
    (csvPhase = "done" /\ csvContent # EmptyText /\ RecoveryRan(csvContent)) =>
        LET rows == ParseRows(csvContent) IN
        /\ \A i \in RecoveredRows(csvContent) :
              \E ln \in UnparsedTail(csvContent) : ln.at = rows[i].at
        /\ \A ln \in UnparsedTail(csvContent) :
              Cardinality({i \in RecoveredRows(csvContent) : rows[i].at = ln.at}) = 1

-----------------------------------------------------------------------------
(* Properties of the latest-assets listing (SpecStore)                     *)

\* the record whose every field is read from the one node a
AtivoOfNode(a) ==
    [ticker |-> clean_value(a.Ticker), tipo |-> clean_value(a.Tipo),
     preco_atual |-> clean_value(a.PrecoAtual), volume |-> clean_value(a.Negociado),
     variacao_24h_pct |-> clean_value(a.Pct), nome |-> clean_value(a.Nome),
     market_cap |-> clean_value(a.MarketCap)]

\* the records of the nodes that have a ticker, in document order
RECURSIVE AtivosOfNodes(_)
AtivosOfNodes(ativos) ==
    IF ativos = <<>> THEN <<>>
    ELSE (IF Head(ativos).Ticker # Absent /\ Head(ativos).Ticker # <<>>
          THEN <<AtivoOfNode(Head(ativos))>> ELSE <<>>)
         \o AtivosOfNodes(Tail(ativos))

\* C30: the latest-assets listing returns one record for every Ativo of the
\* latest OK document that has a ticker, and every field of a record is read
\* from that one Ativo node, also when an Ativo has an element without text.
C30_FieldsOfOneNode ==
    \A r \in Calls("ativos") :
       (~r.raised) =>
          \A d \in LatestOk(r) : r.out = AtivosOfNodes(d.xml_documento.ativos)

====
